---------------------------- MODULE Spec2Model ----------------------------
(***************************************************************************)
(* Model of the metadata pipeline of the algorithm library:                *)
(*   core/parser.py    DocstringParser                                     *)
(*   core/extractor.py CodeExtractor                                       *)
(*   core/scanner.py   LibraryScanner                                      *)
(* Text is modelled as sequences of one-character strings, a docstring as  *)
(* a sequence of lines, a line by its indentation and the groups that the  *)
(* parser's regular expressions capture from it.                           *)
(***************************************************************************)
EXTENDS Integers, Sequences, FiniteSets, TLC

(***************************************************************************)
(* Bounds of the model.                                                    *)
(***************************************************************************)
\* longest docstring, in lines, that the parsing specification builds
MaxLines == 4
\* nesting depth at which the JSON decoder runs out of interpreter stack
\* (sys.getrecursionlimit() less the frames in use), scaled down
RecursionLimit == 2

(***************************************************************************)
(* Text helpers: str.lower, str.strip, str.startswith, the in operator,    *)
(* str.split(',') on sequences of characters.                              *)
(***************************************************************************)
UpperChars == <<"A","B","C","D","E","F","G","H","I","J","K","L","M",
                "N","O","P","Q","R","S","T","U","V","W","X","Y","Z">>
LowerChars == <<"a","b","c","d","e","f","g","h","i","j","k","l","m",
                "n","o","p","q","r","s","t","u","v","w","x","y","z">>

LowerChar(c) ==
    IF \E i \in 1..26 : UpperChars[i] = c
    THEN LowerChars[CHOOSE i \in 1..26 : UpperChars[i] = c]
    ELSE c

Lower(s) == [i \in 1..Len(s) |-> LowerChar(s[i])]

StartsWith(s, p) == Len(s) >= Len(p) /\ SubSeq(s, 1, Len(p)) = p

Contains(s, p) ==
    \E i \in 1..(Len(s) - Len(p) + 1) : SubSeq(s, i, i + Len(p) - 1) = p

RECURSIVE LStrip(_, _)
LStrip(s, cs) ==
    IF s # <<>> /\ Head(s) \in cs THEN LStrip(Tail(s), cs) ELSE s

RECURSIVE RStrip(_, _)
RStrip(s, cs) ==
    IF s # <<>> /\ s[Len(s)] \in cs THEN RStrip(SubSeq(s, 1, Len(s) - 1), cs) ELSE s

StripChars(s, cs) == RStrip(LStrip(s, cs), cs)

Strip(s) == StripChars(s, {" "})

\* s.split(','): the pieces between commas, always at least one piece
RECURSIVE SplitComma(_, _, _)
SplitComma(s, i, cur) ==
    IF i > Len(s) THEN <<cur>>
    ELSE IF s[i] = "," THEN <<cur>> \o SplitComma(s, i + 1, <<>>)
    ELSE SplitComma(s, i + 1, Append(cur, s[i]))

Digits == {"0","1","2","3","4","5","6","7","8","9"}

DigitVal(c) == CHOOSE n \in 0..9 : <<"0","1","2","3","4","5","6","7","8","9">>[n + 1] = c

AllDigits(s) == s # <<>> /\ \A i \in 1..Len(s) : s[i] \in Digits

\* int(s) succeeds: optional sign, digits, surrounding blanks allowed
IsIntText(s) ==
    LET t == Strip(s)
    IN  \/ AllDigits(t)
        \/ Len(t) > 1 /\ t[1] \in {"-", "+"} /\ AllDigits(Tail(t))

RECURSIVE DigitsVal(_, _)
DigitsVal(s, acc) ==
    IF s = <<>> THEN acc ELSE DigitsVal(Tail(s), 10 * acc + DigitVal(Head(s)))

IntVal(s) ==
    LET t == Strip(s)
    IN  IF t[1] = "-" THEN 0 - DigitsVal(Tail(t), 0)
        ELSE IF t[1] = "+" THEN DigitsVal(Tail(t), 0)
        ELSE DigitsVal(t, 0)

\* float(s) succeeds: an int text, or digits with one decimal point
IsFloatText(s) ==
    LET t == Strip(s)
        u == IF t # <<>> /\ t[1] \in {"-", "+"} THEN Tail(t) ELSE t
    IN  \/ IsIntText(s)
        \/ \E k \in 1..Len(u) :
              /\ u[k] = "."
              /\ Len(u) > 1
              /\ \A i \in 1..Len(u) : i # k => u[i] \in Digits

(***************************************************************************)
(* Values of parsed attributes carry the Python type they have.            *)
(***************************************************************************)
PyStr(s)   == [t |-> "str",   v |-> s]
PyInt(n)   == [t |-> "int",   v |-> n]
PyFloat(s) == [t |-> "float", v |-> Strip(s)]
PyBool(b)  == [t |-> "bool",  v |-> b]
PyList(l)  == [t |-> "list",  v |-> l]
PyNone     == [t |-> "none",  v |-> 0]
\* the outcome of a call that raised instead of returning
Raised(e)  == [t |-> "raise", v |-> e]

\* the outcome of a call that returned x
Returned(x) == [t |-> "return", v |-> x]

IsRaised(x) == x.t = "raise"

(***************************************************************************)
(* json.loads restricted to arrays of integers, quoted strings and nested  *)
(* arrays.  The decoder recurses once per nesting level and raises         *)
(* RecursionError when the level exceeds the interpreter's limit; a syntax *)
(* error raises JSONDecodeError.                                           *)
(***************************************************************************)
RECURSIVE SkipWs(_, _)
SkipWs(s, i) == IF i <= Len(s) /\ s[i] = " " THEN SkipWs(s, i + 1) ELSE i

RECURSIVE ScanDigits(_, _)
ScanDigits(s, i) == IF i <= Len(s) /\ s[i] \in Digits THEN ScanDigits(s, i + 1) ELSE i

RECURSIVE ScanString(_, _)
ScanString(s, i) ==
    IF i > Len(s) THEN 0
    ELSE IF s[i] = "\"" THEN i
    ELSE ScanString(s, i + 1)

JErr == [st |-> "JSONDecodeError", nx |-> 0, val |-> PyNone]
JRec == [st |-> "RecursionError", nx |-> 0, val |-> PyNone]

RECURSIVE JsonValue(_, _, _)
RECURSIVE JsonItems(_, _, _, _)
\* the value starting at position i, decoded at nesting level depth
JsonValue(s, i, depth) ==
    IF i > Len(s) THEN JErr
    ELSE IF s[i] = "[" THEN
        IF depth + 1 > RecursionLimit THEN JRec
        ELSE LET j == SkipWs(s, i + 1)
             IN  IF j <= Len(s) /\ s[j] = "]"
                 THEN [st |-> "ok", nx |-> j + 1, val |-> PyList(<<>>)]
                 ELSE JsonItems(s, j, depth + 1, <<>>)
    ELSE IF s[i] \in Digits THEN
        LET j == ScanDigits(s, i)
        IN  [st |-> "ok", nx |-> j, val |-> PyInt(DigitsVal(SubSeq(s, i, j - 1), 0))]
    ELSE IF s[i] = "\"" THEN
        LET j == ScanString(s, i + 1)
        IN  IF j = 0 THEN JErr
            ELSE [st |-> "ok", nx |-> j + 1, val |-> PyStr(SubSeq(s, i + 1, j - 1))]
    ELSE JErr

\* the items of an array whose opening bracket has been consumed
JsonItems(s, i, depth, acc) ==
    LET r == JsonValue(s, i, depth)
    IN  IF r.st # "ok" THEN r
        ELSE LET j == SkipWs(s, r.nx)
                 items == Append(acc, r.val)
             IN  IF j > Len(s) THEN JErr
                 ELSE IF s[j] = "]" THEN [st |-> "ok", nx |-> j + 1, val |-> PyList(items)]
                 ELSE IF s[j] = "," THEN JsonItems(s, SkipWs(s, j + 1), depth, items)
                 ELSE JErr

json_loads(s) ==
    LET i == SkipWs(s, 1)
        r == JsonValue(s, i, 0)
    IN  IF r.st # "ok" THEN r
        ELSE IF SkipWs(s, r.nx) <= Len(s) THEN JErr
        ELSE r

(***************************************************************************)
(* Lines.  A line is its indentation and the groups the parser's regular   *)
(* expressions capture from its stripped text:                             *)
(*   form "kv"    key (typ): val   key is a word, (typ) optional           *)
(*   form "colon" key: val         key holds a non-word character          *)
(*   form "text"  val              anything else, val empty for a blank    *)
(***************************************************************************)
KV(ind, key, typ, val) == [indent |-> ind, form |-> "kv", key |-> key, typ |-> typ, val |-> val]
ColonLine(ind, key, val) == [indent |-> ind, form |-> "colon", key |-> key, typ |-> <<>>, val |-> val]
TextLine(ind, val) == [indent |-> ind, form |-> "text", key |-> <<>>, typ |-> <<>>, val |-> val]

\* line.strip()
LineText(l) ==
    IF l.form = "text" THEN l.val
    ELSE l.key
         \o (IF l.typ = <<>> THEN <<>> ELSE <<" ", "(">> \o l.typ \o <<")">>)
         \o <<":", " ">> \o l.val

s_Algorithm  == <<"A","l","g","o","r","i","t","h","m",":">>
s_Parameters == <<"P","a","r","a","m","e","t","e","r","s",":">>
s_Returns    == <<"R","e","t","u","r","n","s",":">>
s_Example    == <<"E","x","a","m","p","l","e",":">>
s_None       == <<"N","o","n","e">>
s_none       == <<"n","o","n","e">>
s_true       == <<"t","r","u","e">>
s_false      == <<"f","a","l","s","e">>
s_imports    == <<"i","m","p","o","r","t","s">>
s_name       == <<"n","a","m","e">>
s_category   == <<"c","a","t","e","g","o","r","y">>
s_label      == <<"l","a","b","e","l">>
s_widget     == <<"w","i","d","g","e","t">>
s_priority   == <<"p","r","i","o","r","i","t","y">>
s_options    == <<"o","p","t","i","o","n","s">>
s_min        == <<"m","i","n">>
s_max        == <<"m","a","x">>
s_step       == <<"s","t","e","p">>
s_ignore     == <<"i","g","n","o","r","e">>
s_role       == <<"r","o","l","e">>
s_default    == <<"d","e","f","a","u","l","t">>
s_description == <<"d","e","s","c","r","i","p","t","i","o","n">>
s_type       == <<"t","y","p","e">>

\* re.match(r'^(\w+)\s*(?:\((.+?)\))?\s*:\s*(.+)$', stripped_line)
ParamDefMatch(l) == l.form = "kv"

MetaKeys == {s_label, s_widget, s_priority, s_options, s_min, s_max, s_step,
             s_ignore, s_role, s_default}

\* re.match(r'^(label|widget|...|default)\s*:\s*(.+)$', stripped_line)
MetaMatch(l) == l.form = "kv" /\ l.typ = <<>> /\ l.key \in MetaKeys

\* re.match(r'^(\w+)\s*:\s*(.+)$', stripped_line)
AlgoKeyMatch(l) == l.form = "kv" /\ l.typ = <<>>

\* re.match(r'^(\w+)\s*\((.+)\)\s*:\s*(.+)$', stripped_line)
ReturnNameMatch(l) == l.form = "kv" /\ l.typ # <<>>

\* re.match(r'^([^:]+):\s*(.+)$', stripped_line)
ReturnTypeMatch(l) == l.form \in {"kv", "colon"}

(***************************************************************************)
(* DocstringParser                                                         *)
(***************************************************************************)
RECURSIVE DescLines(_, _)
DescLines(doc, i) ==
    IF i > Len(doc) THEN <<>>
    ELSE LET stripped == LineText(doc[i])
         IN  IF \/ StartsWith(stripped, s_Algorithm)
                \/ StartsWith(stripped, s_Parameters)
                \/ StartsWith(stripped, s_Returns)
                \/ StartsWith(stripped, s_Example)
             THEN <<>>
             ELSE IF stripped # <<>> THEN <<stripped>> \o DescLines(doc, i + 1)
             ELSE DescLines(doc, i + 1)

\* the description as the list of its lines ("\n".join is left implicit)
parse_description(doc) == IF doc = <<>> THEN <<>> ELSE DescLines(doc, 1)

RECURSIVE StripAll(_)
StripAll(parts) ==
    IF parts = <<>> THEN <<>>
    ELSE LET p == Strip(Head(parts))
         IN  IF p # <<>> THEN <<p>> \o StripAll(Tail(parts)) ELSE StripAll(Tail(parts))

\* d[k] = v on a dictionary held as a function
DictSet(d, k, v) == [x \in DOMAIN d \cup {k} |-> IF x = k THEN v ELSE d[x]]
EmptyDict == [x \in {} |-> PyNone]
DictGet(d, k, dflt) == IF k \in DOMAIN d THEN d[k] ELSE dflt

RECURSIVE AlgoLoop(_, _, _, _)
AlgoLoop(doc, i, in_algo_section, metadata) ==
    IF i > Len(doc) THEN metadata
    ELSE LET l == doc[i]
             stripped_line == LineText(l)
         IN  IF stripped_line = <<>> THEN AlgoLoop(doc, i + 1, in_algo_section, metadata)
             ELSE IF StartsWith(stripped_line, s_Algorithm)
                  THEN AlgoLoop(doc, i + 1, TRUE, metadata)
             ELSE IF in_algo_section THEN
                  IF \/ StartsWith(stripped_line, s_Parameters)
                     \/ StartsWith(stripped_line, s_Returns)
                     \/ StartsWith(stripped_line, s_Example)
                  THEN metadata
                  ELSE IF AlgoKeyMatch(l)
                       THEN AlgoLoop(doc, i + 1, TRUE,
                                DictSet(metadata, l.key,
                                    IF l.key = s_imports
                                    THEN PyList(StripAll(SplitComma(l.val, 1, <<>>)))
                                    ELSE PyStr(l.val)))
                       ELSE AlgoLoop(doc, i + 1, TRUE, metadata)
             ELSE AlgoLoop(doc, i + 1, FALSE, metadata)

parse_algorithm_section(doc) ==
    IF doc = <<>> THEN EmptyDict ELSE AlgoLoop(doc, 1, FALSE, EmptyDict)

\* float(value) if '.' in value else int(value); ValueError keeps the text
ConvertNumber(value) ==
    IF Contains(value, <<".">>)
    THEN IF IsFloatText(value) THEN PyFloat(value) ELSE PyStr(value)
    ELSE IF IsIntText(value) THEN PyInt(IntVal(value)) ELSE PyStr(value)

StripQuotes(v) == StripChars(StripChars(v, {"'"}), {"\""})

MapSeq(Op(_), l) == [i \in 1..Len(l) |-> Op(l[i])]
PyIntOfText(v) == PyInt(IntVal(v))
PyStrOfQuoted(v) == PyStr(StripQuotes(v))

\* the comma-split fallback of the options conversion
OptionsBySplit(val_str) ==
    LET value_list == MapSeq(Strip, SplitComma(val_str, 1, <<>>))
    IN  IF \A i \in 1..Len(value_list) : IsIntText(value_list[i])
        THEN PyList(MapSeq(PyIntOfText, value_list))
        ELSE IF \A i \in 1..Len(value_list) : IsFloatText(value_list[i])
        THEN PyList(MapSeq(PyFloat, value_list))
        ELSE PyList(MapSeq(PyStrOfQuoted, value_list))

ConvertOptions(value) ==
    LET val_str == StripChars(value, {"[", "]"})
        stripped == Strip(value)
    IN  IF val_str = <<>> THEN PyList(<<>>)
        ELSE IF StartsWith(stripped, <<"[">>) /\ stripped[Len(stripped)] = "]"
        THEN LET r == json_loads(value)
             IN  IF r.st = "ok" THEN r.val
                 ELSE IF r.st = "JSONDecodeError" THEN OptionsBySplit(val_str)
                 ELSE Raised(r.st)
        ELSE OptionsBySplit(val_str)

ConvertDefault(value0) ==
    LET value == Strip(value0)
    IN  IF Lower(value) = s_none THEN PyNone
        ELSE IF Lower(value) = s_true THEN PyBool(TRUE)
        ELSE IF Lower(value) = s_false THEN PyBool(FALSE)
        ELSE IF Contains(value, <<".">>)
             THEN IF IsFloatText(value) THEN PyFloat(value) ELSE PyStr(StripQuotes(value))
        ELSE IF IsIntText(value) THEN PyInt(IntVal(value))
        ELSE PyStr(StripQuotes(value))

_convert_param_meta_value(key, value) ==
    IF key \in {s_min, s_max, s_step} THEN ConvertNumber(value)
    ELSE IF key = s_ignore THEN PyBool(Lower(Strip(value)) = s_true)
    ELSE IF key = s_options THEN ConvertOptions(value)
    ELSE IF key = s_default THEN ConvertDefault(value)
    ELSE PyStr(value)

\* the loop of parse_parameters_section from line i on; cur is <<>> for
\* current_param = None and pind is -1 for param_indent = None
RECURSIVE ParamsLoop(_, _, _, _, _, _)
ParamsLoop(doc, i, in_params_section, cur, pind, params) ==
    IF i > Len(doc) THEN Returned(params)
    ELSE LET l == doc[i]
             stripped_line == LineText(l)
             indent == l.indent
         IN  IF stripped_line = <<>>
             THEN ParamsLoop(doc, i + 1, in_params_section, cur, pind, params)
             ELSE IF StartsWith(stripped_line, s_Parameters)
             THEN ParamsLoop(doc, i + 1, TRUE, cur, pind, params)
             ELSE IF \/ StartsWith(stripped_line, s_Returns)
                     \/ StartsWith(stripped_line, s_Example)
                     \/ StartsWith(stripped_line, s_Algorithm)
             THEN Returned(params)
             ELSE IF ~in_params_section
             THEN ParamsLoop(doc, i + 1, FALSE, cur, pind, params)
             ELSE LET is_param_def == ParamDefMatch(l) /\ (pind = -1 \/ ~(indent > pind))
                  IN  IF is_param_def
                      THEN ParamsLoop(doc, i + 1, TRUE, l.key,
                               IF pind = -1 THEN indent ELSE pind,
                               DictSet(params, l.key,
                                   IF l.typ # <<>>
                                   THEN DictSet(DictSet(EmptyDict, s_description, PyStr(l.val)),
                                                s_type, PyStr(l.typ))
                                   ELSE DictSet(EmptyDict, s_description, PyStr(l.val))))
                      ELSE IF cur # <<>>
                      THEN IF MetaMatch(l)
                           THEN LET value == _convert_param_meta_value(l.key, l.val)
                                IN  IF IsRaised(value) THEN value
                                    ELSE ParamsLoop(doc, i + 1, TRUE, cur, pind,
                                             DictSet(params, cur, DictSet(params[cur], l.key, value)))
                           ELSE ParamsLoop(doc, i + 1, TRUE, cur, pind,
                                    DictSet(params, cur,
                                        DictSet(params[cur], s_description,
                                            PyStr(params[cur][s_description].v \o <<" ">> \o stripped_line))))
                      ELSE ParamsLoop(doc, i + 1, TRUE, cur, pind, params)

\* Returned(a dictionary name -> attributes), or Raised(e) when a conversion raised
parse_parameters_section(doc) ==
    IF doc = <<>> THEN Returned(EmptyDict) ELSE ParamsLoop(doc, 1, FALSE, <<>>, -1, EmptyDict)

RECURSIVE ReturnsLoop(_, _, _, _)
ReturnsLoop(doc, i, in_returns_section, returns) ==
    IF i > Len(doc) THEN returns
    ELSE LET l == doc[i]
             stripped_line == LineText(l)
         IN  IF stripped_line = <<>> THEN ReturnsLoop(doc, i + 1, in_returns_section, returns)
             ELSE IF StartsWith(stripped_line, s_Returns)
             THEN ReturnsLoop(doc, i + 1, TRUE, returns)
             ELSE IF ~in_returns_section THEN ReturnsLoop(doc, i + 1, FALSE, returns)
             ELSE IF \/ StartsWith(stripped_line, s_Example)
                     \/ StartsWith(stripped_line, s_Algorithm)
                     \/ StartsWith(stripped_line, s_Parameters)
             THEN returns
             ELSE IF stripped_line = s_None THEN ReturnsLoop(doc, i + 1, TRUE, returns)
             ELSE IF ReturnNameMatch(l)
             THEN ReturnsLoop(doc, i + 1, TRUE,
                      Append(returns, [name |-> Strip(l.key), type |-> Strip(l.typ),
                                       description |-> Strip(l.val)]))
             ELSE IF ReturnTypeMatch(l)
             THEN ReturnsLoop(doc, i + 1, TRUE,
                      Append(returns, [name |-> <<>>, type |-> Strip(l.key),
                                       description |-> Strip(l.val)]))
             ELSE ReturnsLoop(doc, i + 1, TRUE, returns)

\* parse_returns_section keeping the first entry only
parse_returns_section_SingleShot(doc) ==
    IF doc = <<>> THEN <<>>
    ELSE LET First(returns) == IF returns = <<>> THEN <<>> ELSE <<Head(returns)>>
         IN  First(ReturnsLoop(doc, 1, FALSE, <<>>))

parse_returns_section(doc) ==
    IF doc = <<>> THEN <<>> ELSE ReturnsLoop(doc, 1, FALSE, <<>>)

\* 'Algorithm:' in docstring
has_algorithm_section(doc) ==
    \E i \in 1..Len(doc) : Contains(LineText(doc[i]), s_Algorithm)

\* DocstringParser.parse: the four sections, empty is TRUE for the {} that
\* an empty docstring gives, or Raised(e) when a section's parser raised
parse(doc) ==
    IF doc = <<>>
    THEN [t |-> "dict", empty |-> TRUE, description |-> <<>>, algorithm |-> EmptyDict,
          parameters |-> EmptyDict, returns |-> <<>>]
    ELSE LET ps == parse_parameters_section(doc)
         IN  IF IsRaised(ps) THEN ps
             ELSE [t |-> "dict", empty |-> FALSE,
                   description |-> parse_description(doc),
                   algorithm |-> parse_algorithm_section(doc),
                   parameters |-> ps.v,
                   returns |-> parse_returns_section(doc)]

(***************************************************************************)
(* CodeExtractor.  A signature is the ordered list of inspect.Parameter:   *)
(* name, annotation (<<>> for Parameter.empty, else the class name) and    *)
(* default (Empty for Parameter.empty, else a Python value).               *)
(***************************************************************************)
Empty == [t |-> "empty", v |-> 0]
Param(name, annotation, default) == [name |-> name, annotation |-> annotation, default |-> default]

s_int       == <<"i","n","t">>
s_float     == <<"f","l","o","a","t">>
s_bool      == <<"b","o","o","l">>
s_list      == <<"l","i","s","t">>
s_tuple     == <<"t","u","p","l","e">>
s_str       == <<"s","t","r">>
s_dataframe == <<"d","a","t","a","f","r","a","m","e">>
s_DataFrame == <<"D","a","t","a","F","r","a","m","e">>
s_df        == <<"d","f">>
s_output_var == <<"o","u","t","p","u","t","_","v","a","r">>
s_input     == <<"i","n","p","u","t">>
s_output    == <<"o","u","t","p","u","t">>
s_parameter == <<"p","a","r","a","m","e","t","e","r">>
s_critical  == <<"c","r","i","t","i","c","a","l">>
s_non_critical == <<"n","o","n","-","c","r","i","t","i","c","a","l">>
s_select    == <<"s","e","l","e","c","t">>
s_filepath  == <<"f","i","l","e","p","a","t","h">>
s_file_path == <<"f","i","l","e","_","p","a","t","h">>
s_columns   == <<"c","o","l","u","m","n","s">>
s_column    == <<"c","o","l","u","m","n">>
s_color     == <<"c","o","l","o","r">>
s_file_selector   == <<"f","i","l","e","-","s","e","l","e","c","t","o","r">>
s_column_selector == <<"c","o","l","u","m","n","-","s","e","l","e","c","t","o","r">>
s_color_picker    == <<"c","o","l","o","r","-","p","i","c","k","e","r">>
s_checkbox        == <<"c","h","e","c","k","b","o","x">>
s_input_number    == <<"i","n","p","u","t","-","n","u","m","b","e","r">>
s_input_text      == <<"i","n","p","u","t","-","t","e","x","t">>
s_uncategorized   == <<"u","n","c","a","t","e","g","o","r","i","z","e","d">>

\* bool(x) of a Python value
Truthy(x) ==
    CASE x.t = "none"  -> FALSE
      [] x.t = "empty" -> TRUE
      [] x.t = "bool"  -> x.v
      [] x.t = "int"   -> x.v # 0
      [] x.t = "list"  -> x.v # <<>>
      [] x.t = "str"   -> x.v # <<>>
      [] OTHER         -> TRUE

\* an annotation that is no class: the union int | None, written out.  It
\* equals none of int, float, bool, list, tuple and has no __name__
s_int_or_None == <<"i","n","t"," ","|"," ","N","o","n","e">>

\* hasattr(param.annotation, '__name__'), for an annotation that is not empty
HasName(annotation) == annotation # s_int_or_None

\* _infer_type with the annotation tried before the docstring's type
_infer_type_AnnotationFirst(param, param_info) ==
    LET doc_type == DictGet(param_info, s_type, PyStr(<<>>)).v
        doc_type_lower == Lower(doc_type)
        fromDoc ==
            IF doc_type = <<>> THEN <<>>
            ELSE IF Contains(doc_type_lower, s_list) THEN s_list
            ELSE IF Contains(doc_type_lower, s_int) THEN s_int
            ELSE IF Contains(doc_type_lower, s_float) THEN s_float
            ELSE IF Contains(doc_type_lower, s_bool) THEN s_bool
            ELSE IF Contains(doc_type_lower, s_dataframe) THEN s_DataFrame
            ELSE <<>>
        fromDefault ==
            IF param.default.t \notin {"empty", "none"}
            THEN IF param.default.t = "int" THEN s_int
                 ELSE IF param.default.t = "float" THEN s_float
                 ELSE IF param.default.t = "bool" THEN s_bool
                 ELSE IF param.default.t = "list" THEN s_list
                 ELSE s_str
            ELSE s_str
    IN  IF param.annotation # <<>> /\ HasName(param.annotation) THEN param.annotation
        ELSE IF fromDoc # <<>> THEN fromDoc
        ELSE fromDefault

_infer_type(param, param_info) ==
    LET doc_type == DictGet(param_info, s_type, PyStr(<<>>)).v
        doc_type_lower == Lower(doc_type)
        fromDoc ==
            IF doc_type = <<>> THEN <<>>
            ELSE IF Contains(doc_type_lower, s_list) THEN s_list
            ELSE IF Contains(doc_type_lower, s_int) THEN s_int
            ELSE IF Contains(doc_type_lower, s_float) THEN s_float
            ELSE IF Contains(doc_type_lower, s_bool) THEN s_bool
            ELSE IF Contains(doc_type_lower, s_dataframe) THEN s_DataFrame
            ELSE <<>>
        fromDefault ==
            IF param.default.t \notin {"empty", "none"}
            THEN IF param.default.t = "int" THEN s_int
                 ELSE IF param.default.t = "float" THEN s_float
                 ELSE IF param.default.t = "bool" THEN s_bool
                 ELSE IF param.default.t = "list" THEN s_list
                 ELSE s_str
            ELSE s_str
    IN  IF fromDoc # <<>> THEN fromDoc
        ELSE IF param.annotation # <<>> /\ HasName(param.annotation) THEN param.annotation
        ELSE fromDefault

\* _get_default_value without the table of empty values
_get_default_value_NoEmptyValue(param, param_type) ==
    IF param.default.t # "empty" THEN param.default ELSE PyNone

_get_default_value(param, param_type) ==
    IF param.default.t # "empty" THEN param.default
    ELSE IF param_type = s_int THEN PyInt(0)
    ELSE IF param_type = s_float THEN PyFloat(<<"0", ".", "0">>)
    ELSE IF param_type = s_bool THEN PyBool(FALSE)
    ELSE IF param_type = s_list THEN PyList(<<>>)
    ELSE IF param_type = s_str THEN PyStr(<<>>)
    ELSE PyNone

_infer_role(name, param_type, param_info) ==
    LET doc_role == DictGet(param_info, s_role, PyNone)
    IN  IF Truthy(doc_role) THEN doc_role.v
        ELSE IF name = s_df \/ Contains(Lower(param_type), s_dataframe) THEN s_input
        ELSE IF name = s_output_var THEN s_output
        ELSE s_parameter

\* infer_widget_type with the rules on the type tried before those on the name
infer_widget_type_KindFirst(name, param_type, options) ==
    LET name_lower == Lower(name)
    IN  IF Truthy(options) THEN s_select
        ELSE IF param_type = s_bool THEN s_checkbox
        ELSE IF param_type \in {s_int, s_float} THEN s_input_number
        ELSE IF Contains(name_lower, s_filepath) \/ Contains(name_lower, s_file_path)
        THEN s_file_selector
        ELSE IF Contains(name_lower, s_columns) \/ Contains(name_lower, s_column)
        THEN s_column_selector
        ELSE IF Contains(name_lower, s_color) THEN s_color_picker
        ELSE s_input_text

\* infer_widget_type with the rules on the name tried before the options
infer_widget_type_NameFirst(name, param_type, options) ==
    LET name_lower == Lower(name)
    IN  IF Contains(name_lower, s_filepath) \/ Contains(name_lower, s_file_path)
        THEN s_file_selector
        ELSE IF Contains(name_lower, s_columns) \/ Contains(name_lower, s_column)
        THEN s_column_selector
        ELSE IF Contains(name_lower, s_color) THEN s_color_picker
        ELSE IF Truthy(options) THEN s_select
        ELSE IF param_type = s_bool THEN s_checkbox
        ELSE IF param_type \in {s_int, s_float} THEN s_input_number
        ELSE s_input_text

infer_widget_type(name, param_type, options) ==
    LET name_lower == Lower(name)
    IN  IF Truthy(options) THEN s_select
        ELSE IF Contains(name_lower, s_filepath) \/ Contains(name_lower, s_file_path)
        THEN s_file_selector
        ELSE IF Contains(name_lower, s_columns) \/ Contains(name_lower, s_column)
        THEN s_column_selector
        ELSE IF Contains(name_lower, s_color) THEN s_color_picker
        ELSE IF param_type = s_bool THEN s_checkbox
        ELSE IF param_type \in {s_int, s_float} THEN s_input_number
        ELSE s_input_text

UpperChar(c) ==
    IF \E i \in 1..26 : LowerChars[i] = c
    THEN UpperChars[CHOOSE i \in 1..26 : LowerChars[i] = c]
    ELSE c

IsLetter(c) == \E i \in 1..26 : LowerChars[i] = c \/ UpperChars[i] = c

\* name.replace("_", " ").title()
TitleLabel(name) ==
    LET r == [i \in 1..Len(name) |-> IF name[i] = "_" THEN " " ELSE name[i]]
    IN  [i \in 1..Len(r) |->
            IF i = 1 \/ ~IsLetter(r[i - 1]) THEN UpperChar(r[i]) ELSE LowerChar(r[i])]

\* the AlgorithmParameter that extract_parameters builds for one parameter
BuildParameter(param, param_info, override) ==
    LET name == param.name
        param_type == _infer_type(param, param_info)
        default_val == _get_default_value(param, param_type)
        role == _infer_role(name, param_type, param_info)
        doc_priority == DictGet(param_info, s_priority, PyNone)
        priority == IF Truthy(doc_priority) THEN doc_priority
                    ELSE IF default_val.t = "none" THEN PyStr(s_critical)
                    ELSE PyStr(s_non_critical)
        options == DictGet(override, s_options, DictGet(param_info, s_options, PyNone))
        widget == DictGet(override, s_widget,
                      DictGet(param_info, s_widget,
                          PyStr(infer_widget_type(name, param_type, options))))
    IN  [name |-> name,
         type |-> DictGet(override, s_type, PyStr(param_type)).v,
         default |-> DictGet(override, s_default, DictGet(param_info, s_default, default_val)),
         label |-> DictGet(override, s_label, DictGet(param_info, s_label, PyStr(TitleLabel(name)))),
         description |-> DictGet(override, s_description,
                             DictGet(param_info, s_description,
                                 PyStr(<<"P","a","r","a","m","e","t","e","r"," ">> \o name))),
         widget |-> widget,
         options |-> options,
         min |-> DictGet(override, s_min, DictGet(param_info, s_min, PyNone)),
         max |-> DictGet(override, s_max, DictGet(param_info, s_max, PyNone)),
         step |-> DictGet(override, s_step, DictGet(param_info, s_step, PyNone)),
         priority |-> DictGet(override, s_priority, priority),
         role |-> DictGet(override, s_role, PyStr(role)).v]

RECURSIVE ExtractLoop(_, _, _, _)
ExtractLoop(sig, i, docstring_params, overrides) ==
    IF i > Len(sig) THEN <<>>
    ELSE LET param_info == DictGet(docstring_params, sig[i].name, EmptyDict)
             override == DictGet(overrides, sig[i].name, EmptyDict)
         IN  IF Truthy(DictGet(param_info, s_ignore, PyNone))
             THEN ExtractLoop(sig, i + 1, docstring_params, overrides)
             ELSE <<BuildParameter(sig[i], param_info, override)>>
                  \o ExtractLoop(sig, i + 1, docstring_params, overrides)

extract_parameters(sig, docstring_params, overrides) ==
    ExtractLoop(sig, 1, docstring_params, overrides)

(***************************************************************************)
(* CodeExtractor.extract_outputs_from_signature.  A return annotation is   *)
(* absent (Signature.empty), a class, a string, or a subscripted generic   *)
(* of typing with its arguments: Tuple[...] and any other, Optional[...]   *)
(* say.                                                                    *)
(***************************************************************************)
s_pd_DataFrame == <<"p","d",".","D","a","t","a","F","r","a","m","e">>
s_df_out    == <<"d","f","_","o","u","t">>
s_df_out_   == <<"d","f","_","o","u","t","_">>
s_Tuple     == <<"T","u","p","l","e">>
s_Optional  == <<"O","p","t","i","o","n","a","l">>
s_Ellipsis  == <<"E","l","l","i","p","s","i","s">>

NoAnnotation == [t |-> "empty", name |-> <<>>, args |-> <<>>]
Class(name) == [t |-> "class", name |-> name, args |-> <<>>]
StringAnnotation(text) == [t |-> "str", name |-> text, args |-> <<>>]
Generic(name, args) == [t |-> "generic", name |-> name, args |-> args]
TupleOf(args) == Generic(s_Tuple, args)
\* the ... of Tuple[X, ...]
Ellipsis == [t |-> "ellipsis", name |-> s_Ellipsis, args |-> <<>>]

\* is_dataframe_type: a string holding DataFrame, a __name__ holding
\* DataFrame, or str(t) holding DataFrame, which for a generic is its name
\* followed by the str of its arguments
RECURSIVE is_dataframe_type(_)
is_dataframe_type(t) ==
    \/ Contains(t.name, s_DataFrame)
    \/ \E i \in 1..Len(t.args) : is_dataframe_type(t.args[i])

\* str(n) of a natural number
RECURSIVE NatText(_)
NatText(n) ==
    LET digit == <<"0","1","2","3","4","5","6","7","8","9">>[(n % 10) + 1]
    IN  IF n < 10 THEN <<digit>> ELSE NatText(n \div 10) \o <<digit>>

\* f"df_out_{i+1}" for the index i of enumerate, which counts from 0
df_out_(position) == s_df_out_ \o NatText(position)

\* extract_outputs_from_signature naming the ports by the index of enumerate
extract_outputs_from_signature_FromZero(return_annotation) ==
    LET ret_type == return_annotation
        Port(name) == [name |-> name, type |-> s_DataFrame, description |-> <<>>]
        origin == IF ret_type.t = "generic" THEN ret_type.name ELSE <<>>
    IN  IF ret_type = NoAnnotation THEN <<>>
        ELSE IF origin = s_Tuple
        THEN LET args == ret_type.args
                 kept == SelectSeq([i \in 1..Len(args) |-> i],
                                   LAMBDA i : is_dataframe_type(args[i]))
             IN  [k \in 1..Len(kept) |-> Port(df_out_(kept[k] - 1))]
        ELSE IF is_dataframe_type(ret_type) THEN <<Port(s_df_out)>>
        ELSE <<>>

extract_outputs_from_signature(return_annotation) ==
    LET ret_type == return_annotation
        Port(name) == [name |-> name, type |-> s_DataFrame, description |-> <<>>]
        origin == IF ret_type.t = "generic" THEN ret_type.name ELSE <<>>
    IN  IF ret_type = NoAnnotation THEN <<>>
        ELSE IF origin = s_Tuple
        THEN LET args == ret_type.args
                 kept == SelectSeq([i \in 1..Len(args) |-> i],
                                   LAMBDA i : is_dataframe_type(args[i]))
             IN  [k \in 1..Len(kept) |-> Port(df_out_(kept[k]))]
        ELSE IF is_dataframe_type(ret_type) THEN <<Port(s_df_out)>>
        ELSE <<>>

(***************************************************************************)
(* LibraryScanner.  A function object is its __name__, its __module__, its *)
(* docstring, its signature and the return annotation of the signature; a  *)
(* module is the list of its function members in the order                 *)
(* inspect.getmembers returns them (by name).                              *)
(***************************************************************************)
FuncReturning(name, module, doc, sig, ret) ==
    [name |-> name, module |-> module, doc |-> doc, sig |-> sig, ret |-> ret]

\* a function without return annotation
Func(name, module, doc, sig) == FuncReturning(name, module, doc, sig, NoAnnotation)

(***************************************************************************)
(* CodeExtractor.extract_imports.  A source text is what ast.parse makes   *)
(* of it: the statements of the module body in the order of the text, a    *)
(* def holding the statements of its own body.  A text ast.parse rejects   *)
(* holds a statement that is Invalid.                                      *)
(***************************************************************************)
s_import_ == <<"i","m","p","o","r","t"," ">>
s_from_   == <<"f","r","o","m"," ">>
s__import_ == <<" ","i","m","p","o","r","t"," ">>
s__as_    == <<" ","a","s"," ">>
s_os      == <<"o","s">>
s_sys     == <<"s","y","s">>
s_pd      == <<"p","d">>

RECURSIVE Flatten(_)
Flatten(qs) == IF qs = <<>> THEN <<>> ELSE Head(qs) \o Flatten(Tail(qs))

\* ast.alias: asname is <<>> for None
alias(name, asname) == [name |-> name, asname |-> asname]
\* ast.Import, ast.ImportFrom (module is <<>> for None, level counts the
\* leading dots), ast.FunctionDef and any other statement
Import(names) == [t |-> "Import", module |-> <<>>, level |-> 0, names |-> names, body |-> <<>>]
ImportFrom(module, level, names) ==
    [t |-> "ImportFrom", module |-> module, level |-> level, names |-> names, body |-> <<>>]
FunctionDef(body) == [t |-> "FunctionDef", module |-> <<>>, level |-> 0, names |-> <<>>, body |-> body]
Expr == [t |-> "Expr", module |-> <<>>, level |-> 0, names |-> <<>>, body |-> <<>>]
Invalid == [t |-> "Invalid", module |-> <<>>, level |-> 0, names |-> <<>>, body |-> <<>>]

\* ast.walk: breadth first, the statements of one level in their order
\* before the statements nested in them
RECURSIVE walk(_)
walk(level) ==
    IF level = <<>> THEN <<>>
    ELSE level \o walk(Flatten([i \in 1..Len(level) |-> level[i].body]))

\* the strings the loop appends for one node
ImportStrings(node) ==
    LET NameAs(name) == IF name.asname # <<>> THEN name.name \o s__as_ \o name.asname
                        ELSE name.name
    IN  IF node.t = "Import"
        THEN [k \in 1..Len(node.names) |-> s_import_ \o NameAs(node.names[k])]
        ELSE IF node.t = "ImportFrom"
        THEN [k \in 1..Len(node.names) |->
                 s_from_ \o node.module \o s__import_ \o NameAs(node.names[k])]
        ELSE <<>>

\* ast.parse raises SyntaxError on a text with an invalid statement
Parses(source) == \A i \in 1..Len(walk(source)) : walk(source)[i] # Invalid

extract_imports(source) ==
    IF ~Parses(source) THEN <<>>
    ELSE LET nodes == walk(source)
         IN  Flatten([i \in 1..Len(nodes) |-> ImportStrings(nodes[i])])
\* the AlgorithmMetadata of a function, None when it is no algorithm, or
\* Raised(e) when the parser raised
s_prompt        == <<"p","r","o","m","p","t">>
s_import_pandas == <<"i","m","p","o","r","t"," ","p","a","n","d","a","s"," ","a","s"," ","p","d">>
s_import_numpy  == <<"i","m","p","o","r","t"," ","n","u","m","p","y"," ","a","s"," ","n","p">>
s_pandas        == <<"p","a","n","d","a","s">>
s_import_geopandas == <<"i","m","p","o","r","t"," ","g","e","o","p","a","n","d","a","s">>

\* extractor.extract_imports_from_module: the import statements of the
\* module's source; the modules of the package import pandas
getsource(module) == <<Import(<<alias(s_pandas, s_pd)>>)>>

extract_imports_from_module(module) == extract_imports(getsource(module))

\* scanner._infer_outputs: a port for every entry of the Returns: section,
\* named output when it has no name; without such an entry the ports the
\* return annotation gives
_infer_outputs(func, returns_meta) ==
    IF returns_meta # <<>>
    THEN [i \in 1..Len(returns_meta) |->
             [name |-> IF returns_meta[i].name = <<>> THEN s_output ELSE returns_meta[i].name,
              type |-> returns_meta[i].type,
              description |-> returns_meta[i].description]]
    ELSE extract_outputs_from_signature(func.ret)

create_metadata_from_func(func) ==
    LET Entry(parsed, all_params) ==
            [t |-> "algo",
             id |-> func.name,
             name |-> DictGet(parsed.algorithm, s_name, PyStr(func.name)).v,
             category |-> DictGet(parsed.algorithm, s_category, PyStr(s_uncategorized)).v,
             description |-> parsed.description,
             \* the template embeds the source of the function object
             template |-> [module |-> func.module, name |-> func.name],
             parameters |-> SelectSeq(all_params, LAMBDA q : q.role # s_input),
             inputs |-> MapSeq(LAMBDA q : [name |-> q.name, type |-> q.type,
                                            description |-> q.description],
                               SelectSeq(all_params, LAMBDA q : q.role = s_input)),
             outputs |-> _infer_outputs(func, parsed.returns),
             prompt |-> DictGet(parsed.algorithm, s_prompt, PyStr(<<>>)).v,
             imports |-> IF Truthy(DictGet(parsed.algorithm, s_imports, PyList(<<>>)))
                         THEN parsed.algorithm[s_imports].v
                         ELSE extract_imports_from_module(func.module)]
        Build(parsed) ==
            IF IsRaised(parsed) THEN parsed
            ELSE Entry(parsed, extract_parameters(func.sig, parsed.parameters, EmptyDict))
    IN  IF func.doc = <<>> \/ ~has_algorithm_section(func.doc) THEN PyNone
        ELSE Build(parse(func.doc))

\* scan_module without the test of func.__module__
RECURSIVE ScanMembers_AnyModule(_, _, _, _)
ScanMembers_AnyModule(members, mname, i, algorithms) ==
    LET Collect(algo) ==
            IF IsRaised(algo) THEN algo
            ELSE ScanMembers_AnyModule(members, mname, i + 1,
                    IF algo.t = "algo" THEN Append(algorithms, algo) ELSE algorithms)
    IN  IF i > Len(members) THEN Returned(algorithms)
        ELSE IF StartsWith(members[i].name, <<"_">>)
        THEN ScanMembers_AnyModule(members, mname, i + 1, algorithms)
        ELSE Collect(create_metadata_from_func(members[i]))

\* the loop of scan_module over the members from position i on
RECURSIVE ScanMembers(_, _, _, _)
ScanMembers(members, mname, i, algorithms) ==
    LET Collect(algo) ==
            IF IsRaised(algo) THEN algo
            ELSE ScanMembers(members, mname, i + 1,
                    IF algo.t = "algo" THEN Append(algorithms, algo) ELSE algorithms)
    IN  IF i > Len(members) THEN Returned(algorithms)
        ELSE IF StartsWith(members[i].name, <<"_">>)
        THEN ScanMembers(members, mname, i + 1, algorithms)
        ELSE IF members[i].module # mname
        THEN ScanMembers(members, mname, i + 1, algorithms)
        ELSE Collect(create_metadata_from_func(members[i]))

\* scan_module of the module named mname whose members are given
scan_module(members, mname) == ScanMembers(members, mname, 1, <<>>)

(***************************************************************************)
(* models.get_category_labels: the category -> label lookup                *)
(***************************************************************************)
s_eda       == <<"e","d","a">>
s_plotting  == <<"p","l","o","t","t","i","n","g">>
\* the two Chinese labels, written in pinyin
s_label_eda == <<"t","a","n","s","u","o","s","h","i","f","e","n","x","i">>
s_label_plotting == <<"s","h","u","j","u","h","u","i","t","u">>

DEFAULT_CATEGORY_LABELS ==
    DictSet(DictSet(EmptyDict, s_eda, s_label_eda), s_plotting, s_label_plotting)

get_category_labels == DEFAULT_CATEGORY_LABELS

(***************************************************************************)
(* The module trees that are scanned.  Three leaf modules; package "pa"    *)
(* holds all of them, its sub-package "pb" only the last.                  *)
(***************************************************************************)
Modules == {"m1", "m2", "m3"}
\* the leaf modules by file name
PathOrder == <<"m1", "m2", "m3">>

Packages == {"pa", "pb"}
PackageModules(pkg) == IF pkg = "pa" THEN {"m1", "m2", "m3"} ELSE {"m3"}
NoPackage == "None"

DocAlgo(cat) == <<TextLine(0, s_Algorithm), KV(4, s_category, <<>>, cat)>>
DocAlgoNoCategory == <<TextLine(0, s_Algorithm), KV(4, s_name, <<>>, <<"R">>)>>
DocPlain == <<TextLine(0, <<"x">>)>>
\* the description mentions the word, no line starts with it
DocMention == <<TextLine(0, <<"s","e","e"," ">> \o s_Algorithm \o <<" ","x">>)>>

\* an options value nested one level deeper than the decoder can recurse
DeepOptions == [i \in 1..(RecursionLimit + 1) |-> "["] \o <<"1", "]">>
DocDeepOptions ==
    <<TextLine(0, s_Parameters), KV(0, <<"a">>, <<>>, <<"x">>),
      KV(4, s_options, <<>>, DeepOptions), TextLine(0, s_Algorithm)>>

SigDf == <<Param(s_df, <<>>, Empty), Param(<<"k">>, s_int, PyInt(5))>>
SigA  == <<Param(<<"a">>, <<>>, Empty)>>

\* what a module may hold, as a function of the module's name
ModuleShape(n, m) ==
    CASE n = 0 -> <<>>
      [] n = 1 -> <<Func(<<"f">>, m, DocAlgo(s_eda), SigDf)>>
      [] n = 2 -> <<Func(<<"f">>, m, DocAlgo(s_plotting), SigDf),
                    Func(<<"g">>, m, DocAlgo(s_eda), SigDf)>>
      [] n = 3 -> <<Func(<<"_","h">>, m, DocAlgo(s_eda), SigDf),
                    Func(<<"g">>, "elsewhere", DocAlgo(s_eda), SigDf),
                    Func(<<"q">>, m, DocPlain, SigDf),
                    Func(<<"r">>, m, DocMention, SigA)>>
      [] n = 4 -> <<Func(<<"g">>, m, DocAlgo(s_label_eda), SigDf),
                    Func(<<"n">>, m, <<>>, SigA),
                    Func(<<"r">>, m, DocAlgoNoCategory, SigA)>>
      [] n = 5 -> <<Func(<<"f">>, m, DocAlgo(s_eda), SigDf),
                    Func(<<"z">>, m, DocDeepOptions, SigA)>>

ShapesOf(m) ==
    CASE m = "m1" -> {1, 2, 3}
      [] m = "m2" -> {0, 4}
      [] m = "m3" -> {2, 5}

Trees == {[m \in Modules |-> ModuleShape(c[m], m)] : c \in {c \in [Modules -> 0..5] : \A m \in Modules : c[m] \in ShapesOf(m)}}

\* the sets of modules whose import raises
BrokenSets == {{}} \cup {{m} : m \in Modules}

Perms(S) == {q \in [1..Cardinality(S) -> S] : \A i, j \in 1..Cardinality(S) : i # j => q[i] # q[j]}

(***************************************************************************)
(* State                                                                   *)
(***************************************************************************)
VARIABLES
    tree,       \* module name -> members of the module
    broken,     \* the modules whose import raises an Exception
    package,    \* self.package
    _cache,     \* self._cache, in insertion order
    result,     \* the local result of the running scan: <<category, entries>> in key order
    pc,         \* position of the scan call: idle, listing, modules, returned, raised
    labelled,   \* the running call entered through scan_with_labels
    listing,    \* the leaf modules of the running scan in the order os.listdir gave them
    walked,     \* the leaf modules of the running scan in the order walk_packages gave them
    modules,    \* the modules the loop of scan has still to visit
    algos,      \* the entries of the current module the inner loop has still to visit
    returned,   \* what the last completed call returned to its caller
    published,  \* history: self._cache as the last completed scan left it
    lastRead,   \* what the last get_all_algorithms / get_algorithm_by_id returned
    docstring,  \* the docstring under construction for the parser
    out,        \* the outcome of the last parser / extractor call on docstring
    arg_sig,              \* inspect.signature(func) of the function given to extract_parameters
    arg_docstring_params, \* the docstring_params argument of extract_parameters
    arg_overrides,        \* the overrides argument of extract_parameters
    metadata,             \* the catalog entry handed to the generator
    method,         \* the ToolInvoker method under way: none, invoke_sync, invoke_with_subprocess
    invoke_pc,      \* position of the invoking call: idle, wait, exit, except, join, done
    timeout,        \* the timeout of the call, in clock ticks
    clock,          \* the ticks passed since the call began to wait
    worker,         \* the executor thread / worker process: its state and whether it ignores SIGTERM
    result_queue,   \* result_queue of invoke_with_subprocess
    caught,         \* the exception class the invoking call has caught
    invoke_returned,\* what the invoking call returned to its caller
    _instance,      \* ToolRegistry._instance: None or the instance
    _lock,          \* ToolRegistry._lock: the thread holding it, or None
    heap,           \* the ToolRegistry objects constructed so far, each with its self._tools
    thread_pc,      \* position of each thread within get_instance
    thread_local,   \* per thread: the object constructed and the instance get_instance returned
    handed,         \* history: every instance a get_instance call has returned
    registered,     \* history: for each tool name the spec last given to register_tool
    sys_path,       \* sys.path
    _initialized,   \* path_utils._initialized
    _library_path,  \* path_utils._library_path
    ensured         \* history: number of returns of ensure_library_in_path, and the last return value

scanVars == <<tree, broken, package, _cache, result, pc, labelled, listing, walked, modules, algos, returned, published, lastRead>>
parseVars == <<docstring, out>>
extractVars == <<arg_sig, arg_docstring_params, arg_overrides>>
genVars == <<metadata>>
invokeVars == <<method, invoke_pc, timeout, clock, worker, result_queue, caught, invoke_returned>>
registryVars == <<_instance, _lock, heap, thread_pc, thread_local, handed, registered>>
pathVars == <<sys_path, _initialized, _library_path, ensured>>
toolVars == <<invokeVars, registryVars, pathVars>>
vars == <<tree, broken, package, _cache, result, pc, labelled, listing, walked, modules, algos,
          returned, published, lastRead, docstring, out, arg_sig, arg_docstring_params, arg_overrides,
          metadata, method, invoke_pc, timeout, clock, worker, result_queue, caught, invoke_returned,
          _instance, _lock, heap, thread_pc, thread_local, handed, registered,
          sys_path, _initialized, _library_path, ensured>>

NoRead == [op |-> "none", arg |-> <<>>, val |-> <<>>]
NoOut == [op |-> "none", sig |-> <<>>, val |-> PyNone]

\* no call of extract_parameters is under way
NoExtract ==
    /\ arg_sig = <<>>
    /\ arg_docstring_params = EmptyDict
    /\ arg_overrides = EmptyDict

\* no entry has been handed to the generator
NoGenerate == metadata = PyNone

\* the threads that may use the registry at once
MaxThreads == 3
Threads == 1..MaxThreads

\* no ToolInvoker call has been made
NoWorker == [state |-> "none", ignores_sigterm |-> FALSE]
NoResult == [success |-> FALSE, output |-> 0, code |-> "none", retryable |-> FALSE]
NoInvoke ==
    /\ method = "none"
    /\ invoke_pc = "idle"
    /\ timeout = 0
    /\ clock = 0
    /\ worker = NoWorker
    /\ result_queue = <<>>
    /\ caught = "none"
    /\ invoke_returned = NoResult

\* registry.py as imported: _instance = None, the class lock free, no thread inside get_instance
NoInstance == 0
NoThread == 0
ToolNames == {"t1", "t2"}
NoTool == [name |-> "none", description |-> "none"]
NoRegistry ==
    /\ _instance = NoInstance
    /\ _lock = NoThread
    /\ heap = <<>>
    /\ thread_pc = [t \in Threads |-> "out"]
    /\ thread_local = [t \in Threads |-> [made |-> NoInstance, got |-> NoInstance]]
    /\ handed = {}
    /\ registered = [name \in ToolNames |-> NoTool]

\* path_utils.py before its first statement ran
NoPath ==
    /\ sys_path = <<>>
    /\ _initialized = FALSE
    /\ _library_path = "None"
    /\ ensured = [calls |-> 0, val |-> "None"]

NoTools == NoInvoke /\ NoRegistry /\ NoPath

ScanInit ==
    /\ package = NoPackage
    /\ _cache = <<>>
    /\ result = <<>>
    /\ pc = "idle"
    /\ labelled = FALSE
    /\ listing = <<>>
    /\ walked = <<>>
    /\ modules = <<>>
    /\ algos = <<>>
    /\ returned = <<>>
    /\ published = <<>>
    /\ lastRead = NoRead

Init ==
    /\ tree \in Trees
    /\ broken \in BrokenSets
    /\ ScanInit
    /\ docstring = <<>>
    /\ out = NoOut
    /\ NoExtract
    /\ NoGenerate
    /\ NoTools

(***************************************************************************)
(* LibraryScanner.scan, one action per stretch that readers can tell apart *)
(***************************************************************************)
Idle == pc \in {"idle", "returned", "raised"}

\* scan without self._cache.clear()
ScanBegin_KeepCache(pkg, lab) ==
    /\ Idle
    /\ labelled' = lab
    /\ package' = IF pkg # NoPackage THEN pkg ELSE package
    /\ IF package' = NoPackage
       THEN /\ pc' = "raised"
            /\ UNCHANGED <<_cache, result, listing, walked>>
       ELSE /\ pc' = "listing"
            /\ result' = <<>>
            /\ listing' = <<>>
            /\ walked' = <<>>
            /\ UNCHANGED _cache
    /\ UNCHANGED <<tree, broken, modules, algos, returned, published, lastRead, docstring, out, extractVars, genVars, toolVars>>

\* scan lines 47-54: choose the package, start from an empty result and cache
ScanBegin(pkg, lab) ==
    /\ Idle
    /\ labelled' = lab
    /\ package' = IF pkg # NoPackage THEN pkg ELSE package
    /\ IF package' = NoPackage
       THEN /\ pc' = "raised"
            /\ UNCHANGED <<_cache, result, listing, walked>>
       ELSE /\ pc' = "listing"
            /\ result' = <<>>
            /\ _cache' = <<>>
            /\ listing' = <<>>
            /\ walked' = <<>>
    /\ UNCHANGED <<tree, broken, modules, algos, returned, published, lastRead, docstring, out, extractVars, genVars, toolVars>>

Scan(pkg) == ScanBegin(pkg, FALSE)

ScanWithLabels(pkg) == ScanBegin(pkg, TRUE)

Refresh == ScanBegin(package, FALSE)

\* _get_all_modules letting the first failing import end the walk
RECURSIVE _get_all_modules_Abort(_)
_get_all_modules_Abort(order) ==
    IF order = <<>> \/ Head(order) \in broken THEN <<>>
    ELSE <<Head(order)>> \o _get_all_modules_Abort(Tail(order))

\* the place of a leaf module's file name among the sorted file names
NameRank(m) == CHOOSE k \in 1..Len(PathOrder) : PathOrder[k] = m

\* filenames.sort() of pkgutil: m put at its place in the sorted names
RECURSIVE SortInsert(_, _)
SortInsert(sorted, m) ==
    IF sorted = <<>> THEN <<m>>
    ELSE IF NameRank(m) < NameRank(Head(sorted)) THEN <<m>> \o sorted
    ELSE <<Head(sorted)>> \o SortInsert(Tail(sorted), m)

RECURSIVE SortNames(_)
SortNames(names) ==
    IF names = <<>> THEN <<>> ELSE SortInsert(SortNames(Tail(names)), Head(names))

\* pkgutil.walk_packages yielding the directory listing as it came
walk_packages_Unsorted(names) == names

\* pkgutil.walk_packages over a flat package: os.listdir returns the file
\* names in any order, the walk sorts them and yields the modules in the
\* order of their names
walk_packages(names) == SortNames(names)

\* the leaf modules that import, in the order the walk yields them; the
\* ones whose import raises an Exception are reported and left out
_get_all_modules(order) == SelectSeq(order, LAMBDA m : m \notin broken)

GetAllModules ==
    /\ pc = "listing"
    /\ \E order \in Perms(PackageModules(package)) :
          /\ listing' = order
          /\ walked' = walk_packages(order)
          /\ modules' = _get_all_modules(walk_packages(order))
    /\ pc' = "modules"
    /\ UNCHANGED <<tree, broken, package, _cache, result, labelled, algos, returned, published, lastRead,
                   docstring, out, extractVars, genVars, toolVars>>

\* scan line 60: algos = self.scan_module(module)
ScanModule ==
    /\ pc = "modules"
    /\ algos = <<>>
    /\ modules # <<>>
    /\ LET Took(r) ==
               IF IsRaised(r)
               THEN /\ pc' = "raised"
                    /\ UNCHANGED <<algos, modules>>
               ELSE /\ algos' = r.v
                    /\ modules' = Tail(modules)
                    /\ pc' = "modules"
       IN  Took(scan_module(tree[Head(modules)], Head(modules)))
    /\ UNCHANGED <<tree, broken, package, _cache, result, labelled, listing, walked, returned, published, lastRead,
                   docstring, out, extractVars, genVars, toolVars>>

CacheHas(cache, id) == \E i \in 1..Len(cache) : cache[i].id = id

\* result[category].append(algo), creating the list on first use
ResultAppend(res, algo) ==
    IF \E i \in 1..Len(res) : res[i].key = algo.category
    THEN [i \in 1..Len(res) |->
            IF res[i].key = algo.category
            THEN [key |-> res[i].key, algos |-> Append(res[i].algos, algo)]
            ELSE res[i]]
    ELSE Append(res, [key |-> algo.category, algos |-> <<algo>>])

\* the inner loop without the test for a known id
ScanStep_NoDedup(st, algo) ==
    [cache |-> Append(st.cache, algo), result |-> ResultAppend(st.result, algo)]

\* scan lines 62-69 for one entry: the cache and the result after it
ScanStep(st, algo) ==
    IF CacheHas(st.cache, algo.id)
    THEN st
    ELSE [cache |-> Append(st.cache, algo), result |-> ResultAppend(st.result, algo)]

\* scan lines 61-69: one turn of the inner loop
AddAlgo ==
    /\ pc = "modules"
    /\ algos # <<>>
    /\ LET st == ScanStep([cache |-> _cache, result |-> result], Head(algos))
       IN  /\ _cache' = st.cache
           /\ result' = st.result
    /\ algos' = Tail(algos)
    /\ UNCHANGED <<tree, broken, package, pc, labelled, listing, walked, modules, returned, published, lastRead,
                   docstring, out, extractVars, genVars, toolVars>>

\* result[label] = algos of scan_with_labels, for one category of by_id
LabelSet(res, label, as) ==
    IF \E i \in 1..Len(res) : res[i].key = label
    THEN [i \in 1..Len(res) |-> IF res[i].key = label THEN [key |-> label, algos |-> as] ELSE res[i]]
    ELSE Append(res, [key |-> label, algos |-> as])

RECURSIVE LabelLoop(_, _, _, _)
LabelLoop(by_id, i, cat_labels, res) ==
    IF i > Len(by_id) THEN res
    ELSE LabelLoop(by_id, i + 1, cat_labels,
             LabelSet(res, DictGet(cat_labels, by_id[i].key, by_id[i].key), by_id[i].algos))

\* scan_with_labels lines 84-91 applied to the catalog that scan returned
scan_with_labels(by_id) == LabelLoop(by_id, 1, get_category_labels, <<>>)

\* scan line 71, and the projection when the call came through scan_with_labels
Return ==
    /\ pc = "modules"
    /\ algos = <<>>
    /\ modules = <<>>
    /\ returned' = IF labelled THEN scan_with_labels(result) ELSE result
    /\ published' = _cache
    /\ pc' = "returned"
    /\ UNCHANGED <<tree, broken, package, _cache, result, labelled, listing, walked, modules, algos,
                   lastRead, docstring, out, extractVars, genVars, toolVars>>

\* self._cache.get(algo_id)
CacheGet(cache, id) ==
    IF CacheHas(cache, id)
    THEN <<cache[CHOOSE i \in 1..Len(cache) : cache[i].id = id]>>
    ELSE <<>>

GetAllAlgorithms ==
    /\ lastRead' = [op |-> "get_all_algorithms", arg |-> <<>>, val |-> _cache]
    /\ UNCHANGED <<tree, broken, package, _cache, result, pc, labelled, listing, walked, modules, algos,
                   returned, published, docstring, out, extractVars, genVars, toolVars>>

Ids == {<<"f">>, <<"g">>}

GetAlgorithmById ==
    /\ \E id \in Ids :
          lastRead' = [op |-> "get_algorithm_by_id", arg |-> id, val |-> CacheGet(_cache, id)]
    /\ UNCHANGED <<tree, broken, package, _cache, result, pc, labelled, listing, walked, modules, algos,
                   returned, published, docstring, out, extractVars, genVars, toolVars>>

Next ==
    \/ \E pkg \in Packages : Scan(pkg)
    \/ \E pkg \in Packages : ScanWithLabels(pkg)
    \/ Refresh
    \/ GetAllModules
    \/ ScanModule
    \/ AddAlgo
    \/ Return
    \/ GetAllAlgorithms
    \/ GetAlgorithmById

Spec == Init /\ [][Next]_vars

(***************************************************************************)
(* The parser and the extractor applied to a docstring built line by line. *)
(***************************************************************************)
LinePool ==
    { TextLine(0, s_Algorithm),
      TextLine(0, s_Parameters),
      TextLine(0, s_Returns),
      KV(0, <<"p">>, s_int, <<"d">>),
      KV(4, s_ignore, <<>>, <<"T","r","u","e">>),
      KV(4, s_options, <<>>, DeepOptions) }

\* f(df, p: int = 5) and f(df, p)
Signatures ==
    { <<Param(s_df, <<>>, Empty), Param(<<"p">>, s_int, PyInt(5))>>,
      <<Param(s_df, <<>>, Empty), Param(<<"p">>, <<>>, Empty)>> }

AppendLine ==
    /\ Len(docstring) < MaxLines
    /\ \E l \in LinePool : docstring' = Append(docstring, l)
    /\ out' = NoOut
    /\ UNCHANGED <<scanVars, extractVars, genVars, toolVars>>

ClearDocstring ==
    /\ docstring # <<>>
    /\ docstring' = <<>>
    /\ out' = NoOut
    /\ UNCHANGED <<scanVars, extractVars, genVars, toolVars>>

Parse ==
    /\ out' = [op |-> "parse", sig |-> <<>>, val |-> parse(docstring)]
    /\ UNCHANGED <<docstring, scanVars, extractVars, genVars, toolVars>>

ParseParametersSection ==
    /\ out' = [op |-> "parse_parameters_section", sig |-> <<>>,
               val |-> parse_parameters_section(docstring)]
    /\ UNCHANGED <<docstring, scanVars, extractVars, genVars, toolVars>>

\* extractor.extract_parameters_from_func: the parameters section, then the merge
extract_parameters_from_func(func) ==
    LET Merge(doc_params) ==
            IF IsRaised(doc_params) THEN doc_params
            ELSE Returned(extract_parameters(func.sig, doc_params.v, EmptyDict))
    IN  Merge(parse_parameters_section(func.doc))

ExtractParametersFromFunc ==
    /\ \E sig \in Signatures :
          out' = [op |-> "extract_parameters_from_func", sig |-> sig,
                  val |-> extract_parameters_from_func(Func(<<"f">>, "m1", docstring, sig))]
    /\ UNCHANGED <<docstring, scanVars, extractVars, genVars, toolVars>>

CreateMetadataFromFunc ==
    /\ \E sig \in Signatures :
          out' = [op |-> "create_metadata_from_func", sig |-> sig,
                  val |-> create_metadata_from_func(Func(<<"f">>, "m1", docstring, sig))]
    /\ UNCHANGED <<docstring, scanVars, extractVars, genVars, toolVars>>

ParseInit ==
    /\ tree = [m \in Modules |-> <<>>]
    /\ broken = {}
    /\ ScanInit
    /\ docstring = <<>>
    /\ out = NoOut
    /\ NoExtract
    /\ NoGenerate
    /\ NoTools

ParseNext ==
    \/ AppendLine
    \/ ClearDocstring
    \/ Parse
    \/ ParseParametersSection
    \/ ExtractParametersFromFunc
    \/ CreateMetadataFromFunc

SpecParse == ParseInit /\ [][ParseNext]_vars

(***************************************************************************)
(* extract_parameters called on its own: the signature of a function of    *)
(* one parameter (or of f(df, k: int = 5)), the attributes the docstring   *)
(* gives for that parameter, and an override of one attribute.             *)
(***************************************************************************)
s_path == <<"p","a","t","h">>

MaxAttrs == 2

ParamNames == {s_df, <<"p">>, s_path, s_file_path, s_column, s_color}
Annotations == {<<>>, s_int, s_bool, s_DataFrame, s_int_or_None}
Defaults == {Empty, PyNone, PyInt(5), PyFloat(<<"2", ".", "5">>), PyBool(TRUE)}

\* the values a docstring gives to an attribute of a parameter
AttrValues(k) ==
    CASE k = s_type     -> {PyStr(s_int), PyStr(s_str)}
      [] k = s_role     -> {PyStr(s_input)}
      [] k = s_priority -> {PyStr(s_critical)}
      [] k = s_widget   -> {PyStr(s_input_text)}
      [] k = s_options  -> {PyList(<<PyInt(1)>>)}
      [] k = s_default  -> {PyInt(10)}

AttrKeys == {s_type, s_role, s_priority, s_widget, s_options, s_default}

\* the dictionaries that give at most MaxAttrs attributes
ParamInfos ==
    UNION {{d \in [ks -> UNION {AttrValues(k) : k \in ks}] : \A k \in ks : d[k] \in AttrValues(k)} :
               ks \in {x \in SUBSET AttrKeys : Cardinality(x) <= MaxAttrs}}

\* what an override gives: nothing, or one attribute
Overrides ==
    {EmptyDict}
    \cup {DictSet(EmptyDict, s_widget, PyStr(s_checkbox)),
          DictSet(EmptyDict, s_options, PyList(<<PyInt(2)>>)),
          DictSet(EmptyDict, s_type, PyStr(s_float)),
          DictSet(EmptyDict, s_default, PyInt(7)),
          DictSet(EmptyDict, s_priority, PyStr(s_non_critical)),
          DictSet(EmptyDict, s_role, PyStr(s_output))}

\* {name: d}, or {} when d is empty: the parser gives every parameter of the
\* section a description
ForParam(name, d, description) ==
    IF DOMAIN d = {} THEN EmptyDict
    ELSE DictSet(EmptyDict, name,
             IF description THEN DictSet(d, s_description, PyStr(<<"d">>)) ELSE d)

ExtractInit ==
    /\ tree = [m \in Modules |-> <<>>]
    /\ broken = {}
    /\ ScanInit
    /\ docstring = <<>>
    /\ out = NoOut
    /\ \/ \E name \in ParamNames, annotation \in Annotations, default \in Defaults :
             arg_sig = <<Param(name, annotation, default)>>
       \/ arg_sig = SigDf
    /\ \E d \in ParamInfos : arg_docstring_params = ForParam(arg_sig[Len(arg_sig)].name, d, TRUE)
    /\ \E o \in Overrides : arg_overrides = ForParam(arg_sig[Len(arg_sig)].name, o, FALSE)
    /\ NoGenerate
    /\ NoTools

\* extractor.extract_parameters(func, docstring_params, overrides)
ExtractParameters ==
    /\ out' = [op |-> "extract_parameters", sig |-> arg_sig,
               val |-> Returned(extract_parameters(arg_sig, arg_docstring_params, arg_overrides))]
    /\ UNCHANGED <<docstring, scanVars, extractVars, genVars, toolVars>>

ExtractNext == ExtractParameters

SpecExtract == ExtractInit /\ [][ExtractNext]_vars

(***************************************************************************)
(* parse_returns_section applied to a docstring built from the lines of a  *)
(* Returns: section.                                                       *)
(***************************************************************************)
MaxReturnLines == 4

ReturnLinePool ==
    { TextLine(0, s_Returns),
      TextLine(0, s_Parameters),
      TextLine(4, s_None),
      TextLine(4, <<"x">>),
      KV(4, <<"r">>, s_int, <<"d">>),
      ColonLine(4, s_DataFrame, <<"z">>) }

AppendReturnLine ==
    /\ Len(docstring) < MaxReturnLines
    /\ \E l \in ReturnLinePool : docstring' = Append(docstring, l)
    /\ out' = NoOut
    /\ UNCHANGED <<scanVars, extractVars, genVars, toolVars>>

ParseReturnsSection ==
    /\ out' = [op |-> "parse_returns_section", sig |-> <<>>,
               val |-> Returned(parse_returns_section(docstring))]
    /\ UNCHANGED <<docstring, scanVars, extractVars, genVars, toolVars>>

ReturnsNext ==
    \/ AppendReturnLine
    \/ ClearDocstring
    \/ ParseReturnsSection

SpecReturns == ParseInit /\ [][ReturnsNext]_vars

(***************************************************************************)
(* The ports of a function: _infer_outputs on the Returns: section of the  *)
(* docstring and a return annotation.                                      *)
(***************************************************************************)
MaxTuple == 3
MaxOutputLines == 2

\* the docstring grows by a line of the Returns: pool
AppendOutputLine ==
    /\ Len(docstring) < MaxOutputLines
    /\ \E l \in ReturnLinePool : docstring' = Append(docstring, l)
    /\ out' = NoOut
    /\ UNCHANGED <<scanVars, extractVars, genVars, toolVars>>

ElementTypes ==
    { Class(s_DataFrame), Class(s_int), StringAnnotation(s_pd_DataFrame),
      Generic(s_Optional, <<Class(s_DataFrame)>>) }

ReturnAnnotations ==
    {NoAnnotation, TupleOf(<<Class(s_DataFrame), Ellipsis>>)}
    \cup ElementTypes
    \cup UNION {{TupleOf(args) : args \in [1..n -> ElementTypes]} : n \in 0..MaxTuple}

\* scanner._infer_outputs(func, returns_meta) as create_metadata_from_func
\* calls it
InferOutputs ==
    /\ \E ret \in ReturnAnnotations :
          out' = [op |-> "_infer_outputs", sig |-> ret,
                  val |-> Returned(_infer_outputs(FuncReturning(<<"f">>, "m1", docstring, SigA, ret),
                                                  parse_returns_section(docstring)))]
    /\ UNCHANGED <<docstring, scanVars, extractVars, genVars, toolVars>>

OutputsNext ==
    \/ AppendOutputLine
    \/ ClearDocstring
    \/ InferOutputs

SpecOutputs == ParseInit /\ [][OutputsNext]_vars

(***************************************************************************)
(* Specification of extract_imports alone: the call on every source of at  *)
(* most MaxStatements statements of the module body.                       *)
(***************************************************************************)
MaxStatements == 3

StatementPool ==
    { Import(<<alias(s_os, <<>>)>>),
      Import(<<alias(s_pandas, s_pd)>>),
      Import(<<alias(s_os, <<>>), alias(s_sys, <<>>)>>),
      ImportFrom(<<"m">>, 0, <<alias(<<"x">>, <<>>)>>),
      ImportFrom(<<"m">>, 0, <<alias(<<"x">>, <<"y">>)>>),
      ImportFrom(<<"m">>, 1, <<alias(<<"x">>, <<>>)>>),
      FunctionDef(<<Expr, Import(<<alias(s_sys, <<>>)>>)>>),
      FunctionDef(<<ImportFrom(<<"m">>, 0, <<alias(<<"x">>, <<>>)>>)>>),
      Expr,
      Invalid }

Sources == UNION {[1..n -> StatementPool] : n \in 0..MaxStatements}

\* extractor.extract_imports(source), called once
ExtractImports ==
    /\ out = NoOut
    /\ \E source \in Sources :
          out' = [op |-> "extract_imports", sig |-> source,
                  val |-> Returned(extract_imports(source))]
    /\ UNCHANGED <<docstring, scanVars, extractVars, genVars, toolVars>>

ImportsNext == ExtractImports

SpecImports == ParseInit /\ [][ImportsNext]_vars

(***************************************************************************)
(* CodeGenerator.  The generated code is kept as its parts: the import     *)
(* statements, the function's name, its signature, its docstring as the    *)
(* lines ast.get_docstring gives back, and its body.                       *)
(***************************************************************************)
s_any          == <<"a","n","y">>
s_True         == <<"T","r","u","e">>
s_False        == <<"F","a","l","s","e">>
s_Input_DataFrame == <<"I","n","p","u","t"," ","D","a","t","a","F","r","a","m","e">>
s_Result       == <<"R","e","s","u","l","t">>
s_from_typing_import == <<"f","r","o","m"," ","t","y","p","i","n","g"," ","i","m","p","o","r","t"," ">>

_normalize_type(t) == IF t = s_DataFrame THEN s_pd_DataFrame ELSE t

\* str(x) of a number or a string, as an f-string writes it
ValueText(x) ==
    CASE x.t = "int"   -> IF x.v < 0 THEN <<"-">> \o NatText(0 - x.v) ELSE NatText(x.v)
      [] x.t = "float" -> x.v
      [] x.t = "bool"  -> IF x.v THEN s_True ELSE s_False
      [] x.t = "str"   -> x.v
      [] OTHER         -> s_None

\* json.dumps of a list of numbers and strings
RECURSIVE JsonItemsText(_)
JsonItemsText(items) ==
    IF items = <<>> THEN <<>>
    ELSE (IF Head(items).t = "str" THEN <<"\"">> \o Head(items).v \o <<"\"">>
          ELSE IF Head(items).t = "bool" THEN (IF Head(items).v THEN s_true ELSE s_false)
          ELSE ValueText(Head(items)))
         \o (IF Tail(items) = <<>> THEN <<>> ELSE <<",", " ">> \o JsonItemsText(Tail(items)))

json_dumps(x) == <<"[">> \o JsonItemsText(x.v) \o <<"]">>

\* list(dict.fromkeys(q))
RECURSIVE Dedup(_, _)
Dedup(q, seen) ==
    IF q = <<>> THEN <<>>
    ELSE IF Head(q) \in seen THEN Dedup(Tail(q), seen)
    ELSE <<Head(q)>> \o Dedup(Tail(q), seen \cup {Head(q)})

\* the names of typing the generated code needs, in sorted order
TypingNames ==
    <<<<"A","n","y">>, <<"D","i","c","t">>, <<"L","i","s","t">>,
      <<"O","p","t","i","o","n","a","l">>, <<"T","u","p","l","e">>>>

RECURSIVE AddTyping(_, _, _)
AddTyping(imports, needed, i) ==
    IF i > Len(TypingNames) THEN imports
    ELSE LET t == TypingNames[i]
             already_imported ==
                 \E k \in 1..Len(imports) :
                     \/ Contains(imports[k], s_import_ \o t)
                     \/ Contains(imports[k], <<",", " ">> \o t)
         IN  IF t \in needed /\ ~already_imported
             THEN AddTyping(Append(imports, s_from_typing_import \o t), needed, i + 1)
             ELSE AddTyping(imports, needed, i + 1)

\* _process_imports adding the pandas import after the declared ones
_process_imports_PandasLast(md) ==
    LET has_pandas == \E k \in 1..Len(md.imports) : Contains(md.imports[k], s_pandas)
        imports == IF has_pandas THEN md.imports ELSE md.imports \o <<s_import_pandas>>
        typing_types ==
            (IF Len(md.outputs) > 0 THEN {TypingNames[4]} ELSE {})
            \cup (IF Len(md.outputs) > 1 THEN {TypingNames[5]} ELSE {})
            \cup {TypingNames[i] : i \in {j \in {1, 2, 3, 4, 5} :
                     \E k \in 1..Len(md.parameters) :
                         Contains(md.parameters[k].type, TypingNames[j])}}
    IN  AddTyping(imports, typing_types, 1)

_process_imports(md) ==
    LET has_pandas == \E k \in 1..Len(md.imports) : Contains(md.imports[k], s_pandas)
        imports == IF has_pandas THEN md.imports ELSE <<s_import_pandas>> \o md.imports
        typing_types ==
            (IF Len(md.outputs) > 0 THEN {TypingNames[4]} ELSE {})
            \cup (IF Len(md.outputs) > 1 THEN {TypingNames[5]} ELSE {})
            \cup {TypingNames[i] : i \in {j \in {1, 2, 3, 4, 5} :
                     \E k \in 1..Len(md.parameters) :
                         Contains(md.parameters[k].type, TypingNames[j])}}
    IN  AddTyping(imports, typing_types, 1)

\* param.default is not None and param.default != ""
HasDefault(param) == param.default.t # "none" /\ param.default # PyStr(<<>>)

\* the signature as the list of its arguments: the inputs, then the
\* parameters without default, then those with one
_build_signature(md) ==
    LET required_params == SelectSeq(md.parameters, LAMBDA q : ~HasDefault(q))
        optional_params == SelectSeq(md.parameters, HasDefault)
        Arg(q) == Param(q.name, _normalize_type(q.type),
                        IF HasDefault(q) THEN q.default ELSE Empty)
        Inp(q) == Param(q.name, _normalize_type(q.type), Empty)
    IN  [i \in 1..Len(md.inputs) |-> Inp(md.inputs[i])]
        \o [i \in 1..Len(required_params) |-> Arg(required_params[i])]
        \o [i \in 1..Len(optional_params) |-> Arg(optional_params[i])]

\* the return annotation as the types it wraps in Optional: none for
\* -> None, one for -> Optional[t], several for -> Tuple[...]
_build_return_annotation(outputs) ==
    [i \in 1..Len(outputs) |-> _normalize_type(outputs[i].type)]

\* the lines the docstring holds for one input and for one parameter
InputLines(inp) ==
    <<KV(0, inp.name, _normalize_type(inp.type),
         IF Truthy(inp.description) THEN inp.description.v ELSE s_Input_DataFrame),
      KV(4, s_role, <<>>, s_input)>>

ParameterLines(param) ==
    <<KV(0, param.name, _normalize_type(param.type), param.description.v)>>
    \o (IF Truthy(param.label) THEN <<KV(4, s_label, <<>>, ValueText(param.label))>> ELSE <<>>)
    \o (IF Truthy(param.widget) THEN <<KV(4, s_widget, <<>>, ValueText(param.widget))>> ELSE <<>>)
    \o (IF Truthy(param.options) THEN <<KV(4, s_options, <<>>, json_dumps(param.options))>> ELSE <<>>)
    \o (IF param.min.t # "none" THEN <<KV(4, s_min, <<>>, ValueText(param.min))>> ELSE <<>>)
    \o (IF param.max.t # "none" THEN <<KV(4, s_max, <<>>, ValueText(param.max))>> ELSE <<>>)
    \o (IF param.step.t # "none" THEN <<KV(4, s_step, <<>>, ValueText(param.step))>> ELSE <<>>)
    \o (IF Truthy(param.priority) THEN <<KV(4, s_priority, <<>>, ValueText(param.priority))>> ELSE <<>>)
    \o <<KV(4, s_role, <<>>, param.role)>>


OutputLine(o) ==
    KV(0, o.name, _normalize_type(o.type),
       IF o.description # <<>> THEN o.description ELSE s_Result)

_build_docstring(md) ==
    [i \in 1..Len(md.description) |-> TextLine(0, md.description[i])]
    \o <<TextLine(0, <<>>), TextLine(0, s_Algorithm),
         KV(4, s_name, <<>>, md.name), KV(4, s_category, <<>>, md.category)>>
    \o (IF md.prompt # <<>> THEN <<KV(4, s_prompt, <<>>, md.prompt)>> ELSE <<>>)
    \o <<TextLine(0, <<>>), TextLine(0, s_Parameters)>>
    \o Flatten([i \in 1..Len(md.inputs) |-> InputLines(md.inputs[i])])
    \o Flatten([i \in 1..Len(md.parameters) |-> ParameterLines(md.parameters[i])])
    \o <<TextLine(0, <<>>), TextLine(0, s_Returns)>>
    \o (IF md.outputs = <<>> THEN <<TextLine(0, s_None)>>
        ELSE [i \in 1..Len(md.outputs) |-> OutputLine(md.outputs[i])])

\* the statement of the default body below its comment line: pass, or a
\* return of the first input or of one empty frame per output
Pass == [t |-> "stub", v |-> [stmt |-> "pass", values |-> <<>>]]
ReturnStmt(values) == [t |-> "stub", v |-> [stmt |-> "return", values |-> values]]
s_pd_DataFrame__ == s_pd_DataFrame \o <<"(", ")">>

\* _generate_default_body returning the first input whenever there is one
_generate_default_body_InputFirst(md) ==
    IF md.inputs # <<>> THEN ReturnStmt(<<md.inputs[1].name>>)
    ELSE IF md.outputs = <<>> THEN Pass
    ELSE ReturnStmt([i \in 1..Len(md.outputs) |-> s_pd_DataFrame__])

_generate_default_body(md) ==
    IF md.outputs = <<>> THEN Pass
    ELSE IF Len(md.outputs) = 1
    THEN (IF md.inputs # <<>> THEN ReturnStmt(<<md.inputs[1].name>>)
          ELSE ReturnStmt(<<s_pd_DataFrame__>>))
    ELSE ReturnStmt([i \in 1..Len(md.outputs) |-> s_pd_DataFrame__])

\* what generate_function_code leaves in the entry it was given; a source
\* is given as the import statements extract_imports finds in it, None when
\* no source is given
MergeImports(md, existing_code) ==
    IF existing_code.t = "none" THEN md
    ELSE [md EXCEPT !.imports = Dedup(existing_code.v \o md.imports, {})]

\* the code generate_function_code returns
generate_function_code(md, existing_body, existing_code) ==
    LET Code(m) ==
            [t |-> "code",
             imports |-> _process_imports(m),
             id |-> m.id,
             sig |-> _build_signature(m),
             returns |-> _build_return_annotation(m.outputs),
             docstring |-> _build_docstring(m),
             body |-> IF Truthy(existing_body) THEN existing_body
                      ELSE _generate_default_body(m)]
    IN  Code(MergeImports(md, existing_code))

PyTuple(l) == [t |-> "tuple", v |-> l]

\* ", ".join(items)
RECURSIVE JoinComma(_)
JoinComma(items) ==
    IF items = <<>> THEN <<>>
    ELSE IF Len(items) = 1 THEN items[1]
    ELSE items[1] \o <<",", " ">> \o JoinComma(Tail(items))

\* str(val): the text of a number or a string, None, and for a list or a
\* tuple the repr of its items between the brackets; the strings among the
\* items hold no quote
RECURSIVE str(_)
str(val) ==
    LET repr(x) == IF x.t = "str" THEN <<"'">> \o x.v \o <<"'">> ELSE str(x)
        items == [i \in 1..Len(val.v) |-> repr(val.v[i])]
    IN  CASE val.t = "list"  -> <<"[">> \o JoinComma(items) \o <<"]">>
          [] val.t = "tuple" -> IF Len(items) = 1 THEN <<"(">> \o items[1] \o <<",", ")">>
                                ELSE <<"(">> \o JoinComma(items) \o <<")">>
          [] OTHER           -> ValueText(val)

EndsWith(s, p) == Len(s) >= Len(p) /\ SubSeq(s, Len(s) - Len(p) + 1, Len(s)) = p

\* val_str.replace('\\', '\\\\')
RECURSIVE DoubleBackslashes(_)
DoubleBackslashes(val_str) ==
    IF val_str = <<>> THEN <<>>
    ELSE (IF Head(val_str) = "\\" THEN <<"\\", "\\">> ELSE <<Head(val_str)>>)
         \o DoubleBackslashes(Tail(val_str))

\* the text of a value that is no bool and no number, generator.py:296-313
\* and code_generator.py:150-168; file_selector says whether the parameter
\* definition is there and has the widget file-selector
FormatText(val, file_selector) ==
    LET val_str == Strip(str(val))
        Wrapped(open, close) == StartsWith(val_str, open) /\ EndsWith(val_str, close)
    IN  IF \/ Wrapped(<<"[">>, <<"]">>)
           \/ Wrapped(<<"{">>, <<"}">>)
           \/ Wrapped(<<"(">>, <<")">>)
        THEN val_str
        ELSE IF val_str = s_None THEN s_None
        ELSE <<"'">> \o (IF file_selector THEN DoubleBackslashes(val_str) ELSE val_str) \o <<"'">>

\* _format_value testing the number before the boolean
_format_value_NumberFirst(val, param_def) ==
    IF val.t \in {"int", "float"} THEN str(val)
    ELSE IF val.t = "bool" THEN (IF val.v THEN <<"1">> ELSE <<"0">>)
    ELSE FormatText(val, param_def # PyNone /\ param_def.widget = PyStr(s_file_selector))

\* CodeGenerator._format_value of core/generator.py; param_def is the
\* parameter or None
_format_value(val, param_def) ==
    IF val.t = "bool" THEN (IF val.v THEN s_True ELSE s_False)
    ELSE IF val.t \in {"int", "float"} THEN str(val)
    ELSE FormatText(val, param_def # PyNone /\ param_def.widget = PyStr(s_file_selector))

\* all_params.get(name): the parameter of that name, the input of that name
\* as a parameter of role input, or None
ParamDef(md, name) ==
    LET InputAsParameter(inp) == [name |-> inp.name, type |-> inp.type, role |-> s_input,
                                  widget |-> PyNone]
        hits == SelectSeq(md.parameters, LAMBDA q : q.name = name)
        inputs == SelectSeq(md.inputs, LAMBDA q : q.name = name)
    IN  IF inputs # <<>> THEN InputAsParameter(inputs[Len(inputs)])
        ELSE IF hits # <<>> THEN hits[Len(hits)]
        ELSE PyNone

\* _build_call_args: name=value for every bound value, the value of an input
\* as it is
_build_call_args(md, params) ==
    LET CallArg(name, val) ==
            LET param_def == ParamDef(md, name)
                is_df == param_def # PyNone /\ param_def.role = s_input
            IN  IF is_df THEN name \o <<"=">> \o str(val)
                ELSE name \o <<"=">> \o _format_value(val, param_def)
    IN  [i \in 1..Len(params) |-> CallArg(params[i][1], params[i][2])]

\* the code generate_call_code returns: the imports, the comment with the
\* name, the template, and the statements that follow it
generate_call_code(md, params, output_var) ==
    LET call_args == _build_call_args(md, params)
        call_expr == md.id \o <<"(">> \o JoinComma(call_args) \o <<")">>
    IN  [t |-> "call",
         imports |-> md.imports,
         name |-> md.name,
         template |-> md.template,
         id |-> md.id,
         args |-> call_args,
         statements |-> IF Truthy(output_var)
                        THEN <<output_var.v \o <<" ", "=", " ">> \o call_expr, output_var.v>>
                        ELSE <<call_expr>>]

(***************************************************************************)
(* CodeGenerator of widgets/code_generator.py.  A widget is its class and  *)
(* its value, HBox and VBox wrappers taken off; param_widgets_map is the   *)
(* list of its items in insertion order; algo is the entry, whose          *)
(* dictionary form keeps id, name and outputs; args_config is the list of  *)
(* parameter definitions.                                                  *)
(***************************************************************************)
s_single_output == <<"_","_","s","i","n","g","l","e","_","o","u","t","p","u","t","_","_">>
s_from_algorithm_import == <<"f","r","o","m"," ","a","l","g","o","r","i","t","h","m"," ","i","m","p","o","r","t"," ","*">>

Widget(class, value) == [class |-> class, value |-> value]

\* _format_value of widgets/code_generator.py: a list or tuple first
_format_value_widgets(val, arg_def) ==
    IF val.t \in {"tuple", "list"}
    THEN LET formatted_items ==
                 [i \in 1..Len(val.v) |->
                     IF val.v[i].t = "str" THEN <<"'">> \o val.v[i].v \o <<"'">>
                     ELSE str(val.v[i])]
         IN  <<"[">> \o JoinComma(formatted_items) \o <<"]">>
    ELSE IF val.t = "bool" THEN (IF val.v THEN s_True ELSE s_False)
    ELSE IF val.t \in {"int", "float"} THEN str(val)
    ELSE FormatText(val, arg_def # PyNone /\ arg_def.widget = PyStr(s_file_selector))

\* the widget stored under a name, None when there is none
WidgetOf(param_widgets_map, name) ==
    LET hits == SelectSeq(param_widgets_map, LAMBDA item : item[1] = name)
    IN  IF hits = <<>> THEN PyNone ELSE hits[1][2]

\* _collect_output_vars: the trimmed values of the widgets of the outputs,
\* in the order of the outputs, the empty ones left out
_collect_output_vars(algo, param_widgets_map) ==
    LET Var(name) ==
            LET widget == WidgetOf(param_widgets_map, name)
            IN  IF widget = PyNone \/ Strip(widget.value.v) = <<>> THEN <<>>
                ELSE <<Strip(widget.value.v)>>
    IN  IF algo.outputs # <<>>
        THEN Flatten([i \in 1..Len(algo.outputs) |-> Var(algo.outputs[i].name)])
        ELSE Var(s_single_output)

\* the arguments generate_code passes: none for an output or a name that
\* starts with __, none for a value that is None or empty unless the
\* parameter is a column selector, the value of an input as it is
CallArgs(algo, param_widgets_map, args_config) ==
    LET output_names == {algo.outputs[i].name : i \in 1..Len(algo.outputs)}
        CallArg(name, widget) ==
            LET val == widget.value
                defs == SelectSeq(args_config, LAMBDA a : a.name = name)
                arg_def == IF defs = <<>> THEN PyNone ELSE defs[1]
                is_df == \/ widget.class = "Dropdown" /\ Contains(Lower(name), s_df)
                            /\ arg_def = PyNone
                         \/ arg_def # PyNone /\ arg_def.role = s_input
            IN  IF StartsWith(name, <<"_", "_">>) \/ name \in output_names THEN <<>>
                ELSE IF val.t = "none" \/ (val.t \in {"tuple", "list"} /\ val.v = <<>>)
                THEN (IF arg_def # PyNone /\ arg_def.widget = PyStr(s_column_selector)
                      THEN <<name \o <<"=">> \o s_None>> ELSE <<>>)
                ELSE IF is_df THEN <<name \o <<"=">> \o str(val)>>
                ELSE <<name \o <<"=">> \o _format_value_widgets(val, arg_def)>>
    IN  Flatten([i \in 1..Len(param_widgets_map) |->
                    CallArg(param_widgets_map[i][1], param_widgets_map[i][2])])

\* the code generate_code returns for the arguments and the output names
CodeOf(algo, call_args, output_vars) ==
    LET call_expr == algo.id \o <<"(">> \o JoinComma(call_args) \o <<")">>
    IN  [t |-> "call",
         imports |-> <<s_from_algorithm_import>>,
         name |-> algo.name,
         template |-> <<>>,
         id |-> algo.id,
         args |-> call_args,
         statements |-> IF output_vars # <<>>
                        THEN <<JoinComma(output_vars) \o <<" ", "=", " ">> \o call_expr,
                               output_vars[1]>>
                        ELSE <<call_expr>>]

\* generate_code taking the output names from the last output backwards
generate_code_Reversed(algo, param_widgets_map, args_config) ==
    LET output_vars == _collect_output_vars(algo, param_widgets_map)
    IN  CodeOf(algo, CallArgs(algo, param_widgets_map, args_config),
               [i \in 1..Len(output_vars) |-> output_vars[Len(output_vars) + 1 - i]])

generate_code(algo, param_widgets_map, args_config) ==
    CodeOf(algo, CallArgs(algo, param_widgets_map, args_config),
           _collect_output_vars(algo, param_widgets_map))

(***************************************************************************)
(* CodeParser.parse_function_code on generated code.                       *)
(***************************************************************************)
\* the type an annotation gives: the identifier, the attribute of a dotted
\* name, 'any' for any other expression
IsIdentifier(a) == a # <<>> /\ \A i \in 1..Len(a) : IsLetter(a[i]) \/ a[i] \in Digits \/ a[i] = "_"

RECURSIVE AfterLastDot(_)
AfterLastDot(a) ==
    IF Contains(a, <<".">>)
    THEN AfterLastDot(SubSeq(a, (CHOOSE i \in 1..Len(a) : a[i] = "." /\ \A j \in 1..(i - 1) : a[j] # ".") + 1, Len(a)))
    ELSE a

AnnotationType(a) ==
    IF IsIdentifier(a) THEN a
    ELSE IF IsIdentifier(AfterLastDot(a)) /\ \A i \in 1..Len(a) : IsLetter(a[i]) \/ a[i] \in Digits \/ a[i] \in {"_", "."}
    THEN AfterLastDot(a)
    ELSE s_any

s_df_ == <<"d","f","_">>

\* the item parse_function_code builds for one argument
ArgItem(arg, params_meta) ==
    LET name == arg.name
        p_meta == DictGet(params_meta, name, EmptyDict)
        doc_role == DictGet(p_meta, s_role, PyNone)
        doc_type == DictGet(p_meta, s_type, PyStr(s_any)).v
        arg_type == IF doc_type = s_any /\ arg.annotation # <<>>
                    THEN AnnotationType(arg.annotation) ELSE doc_type
        role == IF Truthy(doc_role) THEN doc_role.v
                ELSE IF \/ name = s_df
                        \/ Contains(name, s_df_)
                        \/ Contains(Lower(arg_type), s_dataframe)
                THEN s_input ELSE s_parameter
    IN  [name |-> name, type |-> arg_type, role |-> role,
         description |-> DictGet(p_meta, s_description, PyStr(<<>>)).v]

\* the dictionary parse_function_code returns for generated code, whose
\* docstring holds a Returns: section with named entries and whose body
\* holds no test call; None when the parse failed
parse_function_code(code) ==
    LET Items(params_meta) == [i \in 1..Len(code.sig) |-> ArgItem(code.sig[i], params_meta)]
        Result(items) ==
            [t |-> "dict",
             id |-> code.id,
             args |-> SelectSeq(items, LAMBDA q : q.role # s_input),
             inputs |-> SelectSeq(items, LAMBDA q : q.role = s_input),
             outputs |-> parse_returns_section(code.docstring),
             description |-> parse_description(code.docstring),
             imports |-> code.imports]
        Built(ps) == IF IsRaised(ps) THEN PyNone ELSE Result(Items(ps.v))
    IN  IF code.docstring = <<>> THEN PyNone
        ELSE Built(parse_parameters_section(code.docstring))

(***************************************************************************)
(* The generator applied to an entry the scanner built, and the code       *)
(* parser applied to the code generated.                                   *)
(***************************************************************************)
s_d == <<"d">>

\* docstrings with the Parameters: section before the Algorithm: block: p
\* documented with or without a type, a role, a Returns: section
GenDocs ==
    {<<TextLine(0, <<"x">>), TextLine(0, s_Parameters), KV(0, <<"p">>, typ, s_d)>>
     \o role \o <<TextLine(0, s_Algorithm), KV(4, s_category, <<>>, <<"e","d","a">>)>>
     \o imports \o ret :
        typ \in {<<>>, s_int, s_DataFrame},
        role \in {<<>>, <<KV(4, s_role, <<>>, s_input)>>, <<KV(4, s_role, <<>>, s_output)>>},
        imports \in {<<>>,
                     <<KV(4, s_imports, <<>>, s_import_numpy)>>,
                     <<KV(4, s_imports, <<>>, s_import_numpy \o <<",", " ">> \o s_import_pandas)>>,
                     <<KV(4, s_imports, <<>>, s_import_geopandas)>>},
        ret \in {<<>>,
                 <<TextLine(0, s_Returns), ColonLine(0, s_DataFrame, <<"z">>)>>,
                 <<TextLine(0, s_Returns), KV(0, <<"a">>, s_DataFrame, <<"z">>),
                   KV(0, <<"b">>, s_DataFrame, <<"z">>)>>}}

\* f(df, p: int = 5), f(df, p), f(p: DataFrame), f(df_p: int)
GenSignatures ==
    Signatures
    \cup {<<Param(<<"p">>, s_DataFrame, Empty)>>,
          <<Param(<<"d","f","_","p">>, s_int, Empty)>>}

\* the entries the scanner builds from them
GenEntries ==
    {create_metadata_from_func(Func(<<"f">>, "m1", doc, sig)) :
        doc \in GenDocs, sig \in GenSignatures}

\* the import statements of the source handed over as existing_code, None
\* when none is handed over
ExistingCodes == {PyNone, PyList(<<>>), PyList(<<s_import_pandas>>), PyList(<<s_import_numpy>>)}
ExistingBodies == {PyNone, PyStr(<<>>), PyStr(<<"p","a","s","s">>)}
CallParams == {<<>>, <<<<s_df, PyStr(s_df)>>>>, <<<<<<"p">>, PyInt(7)>>>>}

GenInit ==
    /\ tree = [m \in Modules |-> <<>>]
    /\ broken = {}
    /\ ScanInit
    /\ docstring = <<>>
    /\ out = NoOut
    /\ NoExtract
    /\ metadata \in GenEntries
    /\ NoTools

\* generator.generate_function_code(metadata, existing_body, existing_code)
GenerateFunctionCode ==
    /\ \E existing_body \in ExistingBodies, existing_code \in ExistingCodes :
          /\ metadata' = MergeImports(metadata, existing_code)
          /\ out' = [op |-> "generate_function_code", sig |-> <<existing_body, existing_code>>,
                     val |-> generate_function_code(metadata, existing_body, existing_code)]
    /\ UNCHANGED <<docstring, scanVars, extractVars, toolVars>>

\* generator.generate_call_code(metadata, params, output_var)
GenerateCallCode ==
    /\ \E params \in CallParams, output_var \in {PyNone, PyStr(<<"r">>)} :
          out' = [op |-> "generate_call_code", sig |-> <<params, <<output_var>>>>,
                  val |-> generate_call_code(metadata, params, output_var)]
    /\ UNCHANGED <<docstring, scanVars, extractVars, genVars, toolVars>>

\* CodeParser.parse_function_code(code) on the code generated last
ParseFunctionCode ==
    /\ out.op = "generate_function_code"
    /\ out' = [op |-> "parse_function_code", sig |-> <<>>,
               val |-> parse_function_code(out.val)]
    /\ UNCHANGED <<docstring, scanVars, extractVars, genVars, toolVars>>

GenNext ==
    \/ GenerateFunctionCode
    \/ GenerateCallCode
    \/ ParseFunctionCode

SpecGenerate == GenInit /\ [][GenNext]_vars

(***************************************************************************)
(* Specification of the call generators: generate_call_code of the core    *)
(* and generate_code of the widgets on the entry of f(df, file_path,       *)
(* columns, p: int = 5) with no, one or two outputs, one value bound.      *)
(***************************************************************************)
CallDocs ==
    {<<TextLine(0, <<"x">>), TextLine(0, s_Algorithm), KV(4, s_category, <<>>, <<"e","d","a">>)>>
     \o ret :
        ret \in {<<>>,
                 <<TextLine(0, s_Returns), KV(0, <<"a">>, s_DataFrame, <<"z">>)>>,
                 <<TextLine(0, s_Returns), KV(0, <<"a">>, s_DataFrame, <<"z">>),
                   KV(0, <<"b">>, s_DataFrame, <<"z">>)>>}}

CallSignature ==
    <<Param(s_df, <<>>, Empty), Param(s_file_path, <<>>, Empty),
      Param(s_columns, <<>>, Empty), Param(<<"p">>, s_int, PyInt(5))>>

CallEntries == {create_metadata_from_func(Func(<<"f">>, "m1", doc, CallSignature)) : doc \in CallDocs}

\* the names a value is bound to: the parameters and a name the entry does
\* not know
BoundNames == {s_file_path, s_columns, <<"p">>, <<"q">>}

BoundValues ==
    { PyBool(TRUE), PyBool(FALSE), PyInt(3), PyInt(0), PyFloat(<<"3",".","5">>),
      PyStr(<<"[","1",","," ","2","]">>), PyStr(<<" ","{","a","}"," ">>), PyStr(<<"(","x",")">>),
      PyStr(<<"(","1","]">>), PyStr(<<"[">>),
      PyStr(s_None), PyStr(<<" ">> \o s_None \o <<" ">>),
      PyStr(<<"a","b","c">>), PyStr(<<" ","a"," ">>), PyStr(<<"a","\\","b">>), PyStr(<<"[","\\","]">>),
      PyStr(<<>>), PyStr(s_True), PyStr(<<"3">>),
      PyNone, PyList(<<PyInt(1), PyStr(<<"a">>)>>),
      PyTuple(<<PyStr(<<"a">>), PyStr(<<"b">>)>>), PyTuple(<<PyStr(<<"a">>)>>), PyTuple(<<>>) }

\* the text of an output widget, or of output_var
OutputTexts == {<<>>, <<" ","r","1">>, <<"r","2">>}

\* the binding of the input df, when there is one
DfParams == {<<>>, <<<<s_df, PyStr(<<"d","f","1">>)>>>>}

CallInit ==
    /\ tree = [m \in Modules |-> <<>>]
    /\ broken = {}
    /\ ScanInit
    /\ docstring = <<>>
    /\ out = NoOut
    /\ NoExtract
    /\ metadata \in CallEntries
    /\ NoTools

\* generator.generate_call_code(metadata, params, output_var), called once
GenerateCall ==
    /\ out = NoOut
    /\ \E df \in DfParams, name \in BoundNames, val \in BoundValues,
          output_var \in {PyNone} \cup {PyStr(Strip(v)) : v \in OutputTexts} :
          LET params == df \o <<<<name, val>>>>
          IN  out' = [op |-> "generate_call_code", sig |-> <<params, <<output_var>>>>,
                      val |-> generate_call_code(metadata, params, output_var)]
    /\ UNCHANGED <<docstring, scanVars, extractVars, genVars, toolVars>>

\* the items of the output widgets: for every output of the entry a Text
\* widget or none, in the order of the outputs or in the opposite order; for
\* an entry without outputs the widget __single_output__ or none
OutputWidgets ==
    LET Choices == {PyNone} \cup {Widget("Text", PyStr(v)) : v \in OutputTexts}
        Item(name, w) == IF w = PyNone THEN <<>> ELSE <<<<name, w>>>>
        n == Len(metadata.outputs)
    IN  IF metadata.outputs = <<>>
        THEN {Item(s_single_output, w) : w \in Choices}
        ELSE {Flatten([i \in 1..n |-> Item(metadata.outputs[i].name, c[i])]) :
                 c \in [1..n -> Choices]}
             \cup {Flatten([i \in 1..n |-> Item(metadata.outputs[n + 1 - i].name, c[n + 1 - i])]) :
                 c \in [1..n -> Choices]}

\* code_generator.generate_code(algo, param_widgets_map, args_config) with
\* the parameters of the entry as args_config, called once
GenerateCode ==
    /\ out = NoOut
    /\ \E df \in DfParams, name \in BoundNames, val \in BoundValues,
          class \in {"Dropdown", "Text"}, outputs \in OutputWidgets :
          LET param_widgets_map ==
                  [i \in 1..Len(df) |-> <<df[i][1], Widget("Dropdown", df[i][2])>>]
                  \o <<<<name, Widget(class, val)>>>> \o outputs
          IN  out' = [op |-> "generate_code", sig |-> <<df \o <<<<name, val>>>>, outputs>>,
                      val |-> generate_code(metadata, param_widgets_map, metadata.parameters)]
    /\ UNCHANGED <<docstring, scanVars, extractVars, genVars, toolVars>>

CallNext ==
    \/ GenerateCall
    \/ GenerateCode

SpecCall == CallInit /\ [][CallNext]_vars

(***************************************************************************)
(* Properties of the scanner                                               *)
(***************************************************************************)
Range(q) == {q[i] : i \in 1..Len(q)}

Min(S) == CHOOSE x \in S : \A y \in S : x <= y

\* the entries of a catalog, whatever their category
CatalogEntries(res) == UNION {Range(res[i].algos) : i \in 1..Len(res)}

\* the places of a catalog that hold an entry with the given id
Occurrences(res, id) ==
    UNION {{<<i, j>> : j \in {k \in 1..Len(res[i].algos) : res[i].algos[k].id = id}} :
               i \in 1..Len(res)}

\* the modules of the running scan whose import succeeded, in traversal order
Imported == SelectSeq(walked, LAMBDA m : m \notin broken)

\* the entries scan_module builds for module m
Declared(m) == scan_module(tree[m], m)

DeclaresId(m, id) == ~IsRaised(Declared(m)) /\ \E a \in Range(Declared(m).v) : a.id = id

AllIds == UNION {{f.name : f \in Range(ModuleShape(n, m))} : <<n, m>> \in (0..5) \X Modules}

\* C1: after scan completes every id occurs exactly once in the returned
\* catalog, in one category list only, and the entry kept for it is the one
\* built from the first module in traversal order that declares it.
C1_FirstDiscoveryWins ==
    pc = "returned" =>
        \A id \in AllIds :
            LET decl == {i \in 1..Len(Imported) : DeclaresId(Imported[i], id)}
                occ == Occurrences(result, id)
            IN  IF decl = {} THEN occ = {}
                ELSE /\ Cardinality(occ) = 1
                     /\ \A o \in occ :
                           /\ result[o[1]].algos[o[2]] \in Range(Declared(Imported[Min(decl)]).v)
                           /\ result[o[1]].algos[o[2]].template.module = Imported[Min(decl)]

\* a completed scan in which two imported modules declare the same id
C1_Witness ==
    /\ pc = "returned"
    /\ \E id \in AllIds : \E i, j \in 1..Len(Imported) :
          /\ i < j
          /\ DeclaresId(Imported[i], id)
          /\ DeclaresId(Imported[j], id)
          /\ Occurrences(result, id) # {}

\* the cache a scan is going to publish when it runs on from the given
\* cache, pending entries and pending modules; Raised when scan_module raises
RECURSIVE FoldAlgos(_, _)
FoldAlgos(st, as) == IF as = <<>> THEN st ELSE FoldAlgos(ScanStep(st, Head(as)), Tail(as))

RECURSIVE FoldModules(_, _)
FoldModules(st, ms) ==
    IF ms = <<>> THEN Returned(st)
    ELSE LET r == Declared(Head(ms))
         IN  IF IsRaised(r) THEN r ELSE FoldModules(FoldAlgos(st, r.v), Tail(ms))

EmptyScan == [cache |-> <<>>, result |-> <<>>]

\* the complete caches the running scan can end with
NewCompletes ==
    LET ends ==
            IF pc = "listing"
            THEN {FoldModules(EmptyScan, _get_all_modules(walk_packages(order))) :
                      order \in Perms(PackageModules(package))}
            ELSE IF pc = "modules"
            THEN {FoldModules(FoldAlgos([cache |-> _cache, result |-> result], algos), modules)}
            ELSE {}
    IN  {e.v.cache : e \in {x \in ends : ~IsRaised(x)}}

\* what the read that lastRead records returns on cache c
ReadOn(c, read) ==
    IF read.op = "get_all_algorithms" THEN c ELSE CacheGet(c, read.arg)

\* C2: a read made while scan or refresh is running returns the complete
\* result of the last finished scan or the complete result of the new scan,
\* never an empty or partially filled set of entries.
C2_ReadersSeeOnlyCompleteScans ==
    [][(pc \in {"listing", "modules"} /\ lastRead' # lastRead) =>
           \/ lastRead'.val = ReadOn(published, lastRead')
           \/ \E c \in NewCompletes : lastRead'.val = ReadOn(c, lastRead')]_vars

\* C3: after every completed scan or refresh the id index holds exactly the
\* entries of the catalog this scan returned: nothing of an earlier scan is
\* left in it and every entry of the catalog is retrievable by its id.
C3_IndexIsTheReturnedCatalog ==
    pc = "returned" =>
        /\ Range(_cache) = CatalogEntries(result)
        /\ \A e \in CatalogEntries(result) : CacheGet(_cache, e.id) = <<e>>
        /\ \A i, j \in 1..Len(_cache) : _cache[i].id = _cache[j].id => i = j

\* a completed scan after which an entry that a reader got from an earlier
\* scan is no longer in the index
C3_Witness ==
    /\ pc = "returned"
    /\ result # <<>>
    /\ lastRead.op = "get_all_algorithms"
    /\ \E e \in Range(lastRead.val) : e \notin Range(_cache)
    /\ \E e \in Range(lastRead.val) : e \in Range(_cache)

\* the names of the members of module m that satisfy Keep
MemberNames(m, Keep(_)) == {f.name : f \in {g \in Range(tree[m]) : Keep(g)}}

\* C7 as claimed: scan_module yields an entry for a member function iff the
\* function is defined in the module and its documentation contains the
\* identity section; nothing else, such as its name, decides.
C7_DefinedAndDocumented ==
    [][(ScanModule /\ pc' = "modules") =>
           {a.id : a \in Range(algos')} =
               MemberNames(Head(modules),
                   LAMBDA f : f.module = Head(modules) /\ has_algorithm_section(f.doc))]_vars

\* C7 as amended: when scan_module returns, it yields an entry for a member
\* function iff the function's name does not start with an underscore, the
\* function is defined in the module and its docstring contains the text
\* 'Algorithm:'.
C7_PublicDefinedAndDocumented ==
    [][(ScanModule /\ pc' = "modules") =>
           {a.id : a \in Range(algos')} =
               MemberNames(Head(modules),
                   LAMBDA f : /\ ~StartsWith(f.name, <<"_">>)
                              /\ f.module = Head(modules)
                              /\ \E i \in 1..Len(f.doc) : Contains(LineText(f.doc[i]), s_Algorithm))]_vars

\* scan_module has just returned for a module that holds a documented
\* private function, a documented re-export and an undocumented function
C7_Witness ==
    /\ pc = "modules"
    /\ algos # <<>>
    /\ \E m \in Modules :
          /\ tree[m] = ModuleShape(3, m)
          /\ Len(modules) < Len(Imported)
          /\ Imported[Len(Imported) - Len(modules)] = m
          /\ Returned(algos) = Declared(m)

\* C8: when imports of leaf modules raise, scan still completes: what it
\* returns is the catalog built from exactly the modules that imported, in
\* their traversal order, and a scan ends by an exception only when called
\* without a package or when scan_module raises.
C8_ImportFailuresAreSkipped ==
    /\ pc = "returned" =>
          /\ Returned([cache |-> _cache, result |-> result]) = FoldModules(EmptyScan, Imported)
          /\ \A e \in CatalogEntries(result) : e.template.module \notin broken
    /\ pc = "modules" => Len(modules) <= Len(Imported) /\
                         modules = SubSeq(Imported, Len(Imported) - Len(modules) + 1, Len(Imported))
    /\ pc = "raised" =>
          \/ package = NoPackage
          \/ modules # <<>> /\ IsRaised(Declared(Head(modules)))

\* a completed scan that met a failing import before a module with entries
C8_Witness ==
    /\ pc = "returned"
    /\ \E i, j \in 1..Len(walked) :
          /\ i < j
          /\ walked[i] \in broken
          /\ \E e \in CatalogEntries(result) : e.template.module = walked[j]

RECURSIVE IsSubsequence(_, _)
IsSubsequence(a, b) ==
    IF a = <<>> THEN TRUE
    ELSE IF b = <<>> THEN FALSE
    ELSE IF Head(a) = Head(b) THEN IsSubsequence(Tail(a), Tail(b))
    ELSE IsSubsequence(a, Tail(b))

RECURSIVE CountEntries(_)
CountEntries(res) == IF res = <<>> THEN 0 ELSE Len(Head(res).algos) + CountEntries(Tail(res))

\* C9: scan_with_labels is a pure projection of scan: the entries under a
\* category key appear, in the same relative order, under the key's label,
\* or under the key itself when it has no label, and no entry is lost or
\* duplicated.
C9_LabelsArePureProjection ==
    (pc = "returned" /\ labelled) =>
        /\ \A i \in 1..Len(result) :
              \E k \in 1..Len(returned) :
                 /\ returned[k].key = DictGet(get_category_labels, result[i].key, result[i].key)
                 /\ IsSubsequence(result[i].algos, returned[k].algos)
        /\ CountEntries(returned) = CountEntries(result)

\* the leaf modules of a package by module path
SortedModules(pkg) == SelectSeq(PathOrder, LAMBDA m : m \in PackageModules(pkg))

\* C10: for a fixed module tree every scan returns the catalog of the
\* traversal by module path, so any two scans have the same set of entries
\* and the same winning module for every id, whatever order the
\* enumeration of the tree returned the modules in.
C10_ScanIndependentOfEnumerationOrder ==
    pc = "returned" =>
        LET byPath == FoldModules(EmptyScan, _get_all_modules(SortedModules(package)))
        IN  /\ ~IsRaised(byPath)
            /\ CatalogEntries(result) = CatalogEntries(byPath.v.result)
            /\ _cache = byPath.v.cache

\* a completed scan whose directory listing named two modules that declare
\* the same id in the order opposite to their names
C10_Witness ==
    /\ pc = "returned"
    /\ \E id \in AllIds : \E i, j \in 1..Len(listing) :
          /\ i < j
          /\ NameRank(listing[j]) < NameRank(listing[i])
          /\ listing[i] \notin broken
          /\ listing[j] \notin broken
          /\ DeclaresId(listing[i], id)
          /\ DeclaresId(listing[j], id)
          /\ \E e \in CatalogEntries(result) : e.id = id /\ e.template.module = listing[j]

(***************************************************************************)
(* Properties of the parser and the extractor                              *)
(***************************************************************************)
\* the lines of the Parameters section as the docstring convention has it:
\* from the first Parameters: header to the next Returns:, Example: or
\* Algorithm: header after it
StartsSection(l, h) == StartsWith(LineText(l), h)

SectionLines(doc) ==
    LET heads == {i \in 1..Len(doc) : StartsSection(doc[i], s_Parameters)}
    IN  IF heads = {} THEN {}
        ELSE LET h == Min(heads)
                 stops == {j \in (h + 1)..Len(doc) :
                              \/ StartsSection(doc[j], s_Returns)
                              \/ StartsSection(doc[j], s_Example)
                              \/ StartsSection(doc[j], s_Algorithm)}
                 stop == IF stops = {} THEN Len(doc) + 1 ELSE Min(stops)
             IN  {j \in (h + 1)..(stop - 1) : ~StartsSection(doc[j], s_Parameters)}

\* the lines of the section that open a parameter: name (type): description
\* at the section's base indentation
DefinitionLines(doc) ==
    LET kvs == {j \in SectionLines(doc) : doc[j].form = "kv"}
    IN  IF kvs = {} THEN {}
        ELSE {j \in kvs : doc[j].indent <= doc[Min(kvs)].indent}

DeclaredParameters(doc) == {doc[j].key : j \in DefinitionLines(doc)}

\* the parameters whose entry, the last one opened under the name, holds an
\* ignore: true line in any letter case
IgnoredParameters(doc) ==
    {doc[j].key : j \in {d \in DefinitionLines(doc) :
        /\ \A e \in DefinitionLines(doc) : doc[e].key = doc[d].key => e <= d
        /\ \E k \in SectionLines(doc) :
              /\ k > d
              /\ k \notin DefinitionLines(doc)
              /\ doc[k].form = "kv" /\ doc[k].typ = <<>> /\ doc[k].key = s_ignore
              /\ Lower(Strip(doc[k].val)) = s_true
              /\ \A e \in DefinitionLines(doc) : ~(d < e /\ e < k)}}

Names(ps) == {ps[i].name : i \in 1..Len(ps)}

\* C4: a parameter whose doc-comment entry sets ignore: true is absent from
\* the result of extract_parameters and from the parameters and the inputs
\* of the catalog entry built from the function's documentation, with or
\* without a default in the signature.
C4_IgnoredParameterNeverExtracted ==
    /\ (out.op = "extract_parameters_from_func" /\ ~IsRaised(out.val)) =>
          \A p \in IgnoredParameters(docstring) : p \notin Names(out.val.v)
    /\ (out.op = "create_metadata_from_func" /\ out.val.t = "algo") =>
          \A p \in IgnoredParameters(docstring) :
              p \notin Names(out.val.parameters) \cup Names(out.val.inputs)

\* C5: parse_parameters_section returns every parameter declared under the
\* Parameters: header whatever sections come earlier in the text, and stops
\* only at a header that comes after the Parameters: header.
C5_EarlierSectionsDoNotEndParameters ==
    (out.op = "parse_parameters_section" /\ ~IsRaised(out.val)) =>
        DOMAIN out.val.v = DeclaredParameters(docstring)

\* C6: DocstringParser.parse never raises, whatever the docstring.
C6_ParseNeverRaises ==
    out.op = "parse" => ~IsRaised(out.val)

(***************************************************************************)
(* Properties of extract_parameters                                        *)
(***************************************************************************)
\* the parameters the last call of extract_parameters returned
Extracted == IF out.op = "extract_parameters" THEN Range(out.val.v) ELSE {}

\* the signature's parameter of the given name
SigParam(name) == arg_sig[CHOOSE i \in 1..Len(arg_sig) : arg_sig[i].name = name]

\* what the docstring and the overrides give for a parameter
InfoOf(name) == DictGet(arg_docstring_params, name, EmptyDict)
OverrideOf(name) == DictGet(arg_overrides, name, EmptyDict)

\* the docstring or the overrides give the attribute k of the parameter
Supplied(name, k) == k \in DOMAIN InfoOf(name) \/ k \in DOMAIN OverrideOf(name)

\* C13 as claimed: every parameter extract_parameters returns with a
\* non-empty options list has the widget select, whatever widget the
\* docstring or an override gives and whatever its name or type.
C13_OptionsAlwaysSelect ==
    \A p \in Extracted : Truthy(p.options) => p.widget = PyStr(s_select)

\* C13 as amended: every parameter extract_parameters returns with a
\* non-empty options list has the widget select whatever its name or type,
\* unless the docstring or an override gives a widget, which is then used.
C13_OptionsSelectUnlessWidgetGiven ==
    \A p \in Extracted :
        Truthy(p.options) =>
            p.widget = DictGet(OverrideOf(p.name), s_widget,
                           DictGet(InfoOf(p.name), s_widget, PyStr(s_select)))

\* a parameter named file_path with options and no widget given is a select
C13_Witness ==
    \E p \in Extracted :
        /\ Truthy(p.options)
        /\ p.name = s_file_path
        /\ ~Supplied(p.name, s_widget)
        /\ p.widget = PyStr(s_select)

\* C14: every parameter extract_parameters returns with role input has the
\* type DataFrame; for f(df, k: int = 5) the parameter df, which has no
\* annotation, is returned with role input and type DataFrame.
C14_InputIsDataFrame ==
    \A p \in Extracted : p.role = s_input => p.type = s_DataFrame

\* C15: without a priority in the docstring, extract_parameters gives the
\* priority critical exactly when the signature declares no default for the
\* parameter and non-critical exactly when it declares one, whatever the
\* type and the default's value; a priority of the docstring is used as given.
C15_CriticalIffNoDefault ==
    \A p \in Extracted :
        s_priority \notin DOMAIN OverrideOf(p.name) =>
            p.priority = DictGet(InfoOf(p.name), s_priority,
                             IF SigParam(p.name).default = Empty
                             THEN PyStr(s_critical) ELSE PyStr(s_non_critical))

\* the type that the docstring and the signature decide for a parameter: the
\* first keyword the docstring's type holds, else the class the annotation
\* names, else the type of the default when it is an int, a float, a bool or
\* a list, else str
KeywordOf(doc_type) ==
    LET lower == Lower(doc_type)
        kws == <<s_list, s_int, s_float, s_bool, s_dataframe>>
        kinds == <<s_list, s_int, s_float, s_bool, s_DataFrame>>
        hits == {i \in 1..5 : Contains(lower, kws[i])}
    IN  IF hits = {} THEN <<>> ELSE kinds[Min(hits)]

DocKind(name) == KeywordOf(DictGet(InfoOf(name), s_type, PyStr(<<>>)).v)

AnnotationApplies(param) == param.annotation # <<>> /\ HasName(param.annotation)

DefaultKind(param) ==
    IF param.default.t \in {"int", "float", "bool", "list"}
    THEN CASE param.default.t = "int" -> s_int
           [] param.default.t = "float" -> s_float
           [] param.default.t = "bool" -> s_bool
           [] param.default.t = "list" -> s_list
    ELSE s_str

ResolvedKind(name) ==
    IF DocKind(name) # <<>> THEN DocKind(name)
    ELSE IF AnnotationApplies(SigParam(name)) THEN SigParam(name).annotation
    ELSE DefaultKind(SigParam(name))

\* the empty value of a type
EmptyValue(kind) ==
    CASE kind = s_int   -> PyInt(0)
      [] kind = s_float -> PyFloat(<<"0", ".", "0">>)
      [] kind = s_bool  -> PyBool(FALSE)
      [] kind = s_list  -> PyList(<<>>)
      [] kind = s_str   -> PyStr(<<>>)
      [] OTHER          -> PyNone

\* C16 as claimed: the default of every extracted parameter is the
\* signature's default whenever the signature declares one; when it declares
\* none, the default is the empty value of the resolved type: 0, 0.0, False,
\* [] or "".
C16_DefaultFromSignature ==
    \A p \in Extracted :
        p.default = IF SigParam(p.name).default # Empty
                    THEN SigParam(p.name).default
                    ELSE EmptyValue(ResolvedKind(p.name))

\* C16 as amended: the default of every extracted parameter is the default
\* an override gives, else the default the docstring gives, else the
\* signature's default whenever the signature declares one; when none of the
\* three gives one, it is the empty value of the type that the docstring and
\* the signature decide: 0, 0.0, False, [] or "".
C16_DefaultUnlessGiven ==
    \A p \in Extracted :
        p.default = DictGet(OverrideOf(p.name), s_default,
                        DictGet(InfoOf(p.name), s_default,
                            IF SigParam(p.name).default # Empty
                            THEN SigParam(p.name).default
                            ELSE EmptyValue(ResolvedKind(p.name))))

\* both branches in f(df, k: int = 5): k keeps 5, and df, a str without
\* default, is given ""
C16_Witness ==
    /\ \E p \in Extracted :
          /\ ~Supplied(p.name, s_default)
          /\ SigParam(p.name).default = PyInt(5)
          /\ p.default = PyInt(5)
    /\ \E p \in Extracted :
          /\ ~Supplied(p.name, s_default)
          /\ SigParam(p.name).default = Empty
          /\ p.type = s_str
          /\ p.default = PyStr(<<>>)

s_file == <<"f","i","l","e">>

\* the first rule that matches, for a given list of words that mark a file
InferredBy(name, kind, options, fileWords) ==
    LET lower == Lower(name)
    IN  IF Truthy(options) THEN s_select
        ELSE IF \E w \in fileWords : Contains(lower, w) THEN s_file_selector
        ELSE IF Contains(lower, s_column) \/ Contains(lower, s_columns) THEN s_column_selector
        ELSE IF Contains(lower, s_color) THEN s_color_picker
        ELSE IF kind = s_bool THEN s_checkbox
        ELSE IF kind \in {s_int, s_float} THEN s_input_number
        ELSE s_input_text

\* the widget of p is the override's, else the docstring's, else the one the
\* rules give with the given file words
WidgetResolved(p, fileWords) ==
    p.widget = DictGet(OverrideOf(p.name), s_widget,
                   DictGet(InfoOf(p.name), s_widget,
                       PyStr(InferredBy(p.name, ResolvedKind(p.name), p.options, fileWords))))

\* C18 as claimed: without a widget from the docstring or an override, the
\* widget is that of the first matching rule: non-empty options give select;
\* a name containing file or path gives file-selector; a name containing
\* column or columns gives column-selector; a name containing color gives
\* color-picker; type bool gives checkbox; type int or float gives
\* input-number; otherwise input-text.  A widget of the docstring or of an
\* override is used instead of any inferred one.
C18_WidgetRulesFileOrPath ==
    \A p \in Extracted : WidgetResolved(p, {s_file, s_path})

\* C18 as amended: the same, with the file rule matching a name that
\* contains filepath or file_path, and the type being the one that the
\* docstring and the signature decide.
C18_WidgetRulesFilepath ==
    \A p \in Extracted : WidgetResolved(p, {s_filepath, s_file_path})

\* the name file_path decides against the type bool
C18_Witness ==
    \E p \in Extracted :
        /\ ~Supplied(p.name, s_widget) /\ ~Truthy(p.options)
        /\ p.name = s_file_path /\ p.type = s_bool
        /\ p.widget = PyStr(s_file_selector)

(***************************************************************************)
(* Properties of parse_returns_section                                     *)
(***************************************************************************)
\* the lines of the Returns: section: those after the first Returns: header
\* and before the first Example:, Algorithm: or Parameters: header after it
ReturnSectionLines(doc) ==
    LET heads == {i \in 1..Len(doc) : StartsSection(doc[i], s_Returns)}
    IN  IF heads = {} THEN {}
        ELSE LET h == Min(heads)
                 stops == {j \in (h + 1)..Len(doc) :
                              \/ StartsSection(doc[j], s_Example)
                              \/ StartsSection(doc[j], s_Algorithm)
                              \/ StartsSection(doc[j], s_Parameters)}
                 stop == IF stops = {} THEN Len(doc) + 1 ELSE Min(stops)
             IN  {j \in (h + 1)..(stop - 1) : ~StartsSection(doc[j], s_Returns)}

\* the lines of the section that describe a return value: name (type):
\* description or type: description; a bare None is no such line
ReturnLines(doc) ==
    {j \in ReturnSectionLines(doc) : doc[j].form \in {"kv", "colon"}}

\* what a line that describes a return value says
ReturnOf(l) ==
    IF l.form = "kv" /\ l.typ # <<>>
    THEN [name |-> l.key, type |-> l.typ, description |-> l.val]
    ELSE [name |-> <<>>, type |-> l.key, description |-> l.val]

\* the subsequence of q at the positions in S, in order
RECURSIVE Pick(_, _, _)
Pick(q, S, i) ==
    IF i > Len(q) THEN <<>>
    ELSE (IF i \in S THEN <<q[i]>> ELSE <<>>) \o Pick(q, S, i + 1)

ReturnsParsed == out.op = "parse_returns_section"

\* C19 as claimed: parse_returns_section returns at most one entry, that of
\* the first matching line of the Returns: section; a bare None line yields
\* no entry.
C19_ReturnsSingleShot ==
    ReturnsParsed =>
        /\ Len(out.val.v) <= 1
        /\ ReturnLines(docstring) # {} =>
              out.val.v = <<ReturnOf(docstring[Min(ReturnLines(docstring))])>>

\* C19 as amended: parse_returns_section returns one entry for every
\* matching line of the Returns: section, in the order of the lines; a bare
\* None line yields no entry.
C19_OneReturnPerMatchingLine ==
    ReturnsParsed =>
        /\ Len(out.val.v) = Cardinality(ReturnLines(docstring))
        /\ out.val.v = Pick([i \in 1..Len(docstring) |-> ReturnOf(docstring[i])],
                            ReturnLines(docstring), 1)

\* two matching lines and a bare None line give two entries
C19_Witness ==
    /\ ReturnsParsed
    /\ Cardinality(ReturnLines(docstring)) = 2
    /\ \E j \in ReturnSectionLines(docstring) : docstring[j].val = s_None
    /\ Len(out.val.v) = 2

(***************************************************************************)
(* Properties of the Parameters: section                                   *)
(***************************************************************************)
\* the indentation of the first definition line of the section
BaseIndent(doc) ==
    LET kvs == {j \in SectionLines(doc) : doc[j].form = "kv"}
    IN  IF kvs = {} THEN -1 ELSE doc[Min(kvs)].indent

\* the definition lines at the section's base indentation
BaseDefinitionLines(doc) ==
    {j \in SectionLines(doc) : doc[j].form = "kv" /\ doc[j].indent = BaseIndent(doc)}

\* the deeper lines that set a recognised attribute
AttributeLines(doc) ==
    {k \in SectionLines(doc) :
        /\ doc[k].indent > BaseIndent(doc)
        /\ doc[k].form = "kv" /\ doc[k].typ = <<>> /\ doc[k].key \in MetaKeys
        /\ \E j \in BaseDefinitionLines(doc) : j < k}

\* the definition line that opened the parameter line k belongs to
Opener(doc, k) ==
    CHOOSE j \in BaseDefinitionLines(doc) :
        j < k /\ \A e \in BaseDefinitionLines(doc) : e < k => e <= j

\* C20: in the Parameters: section a line at the base indentation matching
\* name (type): description opens a parameter; a deeper line that sets a
\* recognised attribute sets it on the parameter opened last, never on an
\* earlier one and never as a new parameter; the names returned are exactly
\* those of the definition lines at the base indentation.
C20_ParametersSectionStructure ==
    (out.op = "parse_parameters_section" /\ ~IsRaised(out.val)) =>
        /\ DOMAIN out.val.v = {docstring[j].key : j \in BaseDefinitionLines(docstring)}
        /\ \A k \in AttributeLines(docstring) :
              LET j == Opener(docstring, k)
              IN  (\A e \in BaseDefinitionLines(docstring) :
                       e > k => docstring[e].key # docstring[j].key)
                  => docstring[k].key \in DOMAIN out.val.v[docstring[j].key]

(***************************************************************************)
(* Properties of the generator                                             *)
(***************************************************************************)
\* name, type and role of every input and parameter of a catalog entry
EntryParameters(md) ==
    {<<md.inputs[i].name, md.inputs[i].type, s_input>> : i \in 1..Len(md.inputs)}
    \cup {<<md.parameters[i].name, md.parameters[i].type, md.parameters[i].role>> :
             i \in 1..Len(md.parameters)}

\* name, type and role of every input and argument parse_function_code returned
ParsedParameters(d) ==
    {<<d.inputs[i].name, d.inputs[i].type, d.inputs[i].role>> : i \in 1..Len(d.inputs)}
    \cup {<<d.args[i].name, d.args[i].type, d.args[i].role>> : i \in 1..Len(d.args)}

\* C11: round trip: the code generate_function_code writes for an entry the
\* scanner built, parsed again, gives parameters with the same names, the
\* same types and the same roles as the entry.
C11_RoundTripKeepsParameters ==
    out.op = "parse_function_code" =>
        /\ out.val.t = "dict"
        /\ ParsedParameters(out.val) = EntryParameters(metadata)

\* C12: generate_function_code and generate_call_code leave every field of
\* the entry they are given unchanged, its imports included, with or without
\* a body or a source handed over.
C12_GeneratorLeavesEntryUnchanged ==
    [][metadata' = metadata]_vars


(***************************************************************************)
(* Properties of extract_imports                                           *)
(***************************************************************************)
\* the statements of a source in the order of the text: a def before the
\* statements of its body, these before the statement after the def
RECURSIVE TextOrder(_)
TextOrder(level) ==
    IF level = <<>> THEN <<>>
    ELSE <<Head(level)>> \o TextOrder(Head(level).body) \o TextOrder(Tail(level))

\* the declarations of a source in the order of the text
Declarations(source) ==
    LET nodes == TextOrder(source)
    IN  Flatten([i \in 1..Len(nodes) |-> ImportStrings(nodes[i])])

ImportsExtracted == out.op = "extract_imports" /\ Parses(out.sig)

\* C21: extract_imports returns the declarations of the import statements of
\* the source, each distinct declaration once, in the order of their first
\* appearance in the text.
C21_ImportsOnceInTextOrder ==
    ImportsExtracted => out.val.v = Dedup(Declarations(out.sig), {})

\* what the code does return: every declaration, as often as it is written,
\* level by level
C21_ImportsLevelByLevel ==
    ImportsExtracted =>
        /\ Range(out.val.v) = Range(Declarations(out.sig))
        /\ Len(out.val.v) = Len(Declarations(out.sig))

C21_DuplicateKept ==
    /\ ImportsExtracted
    /\ \E i, j \in 1..Len(out.val.v) : i < j /\ out.val.v[i] = out.val.v[j]


(***************************************************************************)
(* Properties of the output ports                                          *)
(***************************************************************************)
s_result == <<"r","e","s","u","l","t">>

\* _infer_outputs ran on a docstring without Returns: entries
InferredFromSignature ==
    /\ out.op = "_infer_outputs"
    /\ parse_returns_section(docstring) = <<>>

\* the annotation is a tuple of fixed size whose elements are all
\* dataframe-like
DataFrameTuple(ret) ==
    /\ ret.t = "generic" /\ ret.name = s_Tuple
    /\ \A i \in 1..Len(ret.args) : ret.args[i] # Ellipsis /\ is_dataframe_type(ret.args[i])

\* the annotation is one dataframe-like type, no tuple
SingleDataFrame(ret) ==
    /\ ~(ret.t = "generic" /\ ret.name = s_Tuple)
    /\ is_dataframe_type(ret)

PortNames == [i \in 1..Len(out.val.v) |-> out.val.v[i].name]

\* one port per position of the tuple, the port of position i (counted from
\* 1) named df_out_<i>
TuplePorts ==
    InferredFromSignature /\ DataFrameTuple(out.sig) =>
        PortNames = [i \in 1..Len(out.sig.args) |-> s_df_out_ \o NatText(i)]

\* C22 as stated: without Returns: entries a single dataframe-like return
\* annotation gives exactly one port named result, and a fixed-size tuple of
\* dataframe-like elements gives one port per position i, named df_out_<i>.
C22_SingleReturnNamedResult ==
    /\ InferredFromSignature /\ SingleDataFrame(out.sig) => PortNames = <<s_result>>
    /\ TuplePorts

\* C22 amended: the single port is named df_out.
C22_SingleReturnNamedDfOut ==
    /\ InferredFromSignature /\ SingleDataFrame(out.sig) => PortNames = <<s_df_out>>
    /\ TuplePorts

\* a docstring whose Returns: section holds no entry, on a function
\* annotated to return a DataFrame
C22_Witness ==
    /\ InferredFromSignature /\ SingleDataFrame(out.sig)
    /\ \E i \in 1..Len(docstring) : StartsSection(docstring[i], s_Returns)
    /\ PortNames = <<s_df_out>>

C22_TupleWitness ==
    /\ InferredFromSignature
    /\ DataFrameTuple(out.sig) /\ Len(out.sig.args) = 2
    /\ PortNames = <<s_df_out_ \o <<"1">>, s_df_out_ \o <<"2">>>>


(***************************************************************************)
(* Properties of generate_function_code                                    *)
(***************************************************************************)
\* generate_function_code has returned the code in out for the entry that is
\* now in metadata
FunctionGenerated == out.op = "generate_function_code"

\* the import lines of the generated code
ImportLines == out.val.imports

\* the entry has a tabular input
HasTabularInput == metadata.inputs # <<>>

\* the line imports pandas itself
IsPandasImport(line) ==
    \/ StartsWith(line, s_import_ \o s_pandas)
    \/ StartsWith(line, s_from_ \o s_pandas)

\* the merged import list: the imports of the original source, when one was
\* supplied, followed by the doc-declared ones, each once
MergedList == metadata.imports

MentionsPandas(lines) == \E k \in 1..Len(lines) : Contains(lines[k], s_pandas)

\* C23 as stated: for an entry with a tabular input the pandas import is the
\* first import line of the generated code, whatever the doc-declared import
\* list and the supplied original source are.
C23_PandasImportFirst ==
    FunctionGenerated /\ HasTabularInput =>
        ImportLines # <<>> /\ IsPandasImport(ImportLines[1])

\* C23 amended: import pandas as pd is the first import line whenever no
\* line of the merged list mentions pandas, and is followed by the merged
\* list; a merged list that mentions pandas is emitted in its own order.
C23_PandasImportFirstWhenAdded ==
    FunctionGenerated /\ HasTabularInput =>
        /\ MentionsPandas(ImportLines)
        /\ IF MentionsPandas(MergedList)
           THEN /\ Len(ImportLines) >= Len(MergedList)
                /\ SubSeq(ImportLines, 1, Len(MergedList)) = MergedList
           ELSE /\ ImportLines[1] = s_import_pandas
                /\ Len(ImportLines) > Len(MergedList)
                /\ SubSeq(ImportLines, 2, Len(MergedList) + 1) = MergedList

\* a list where another import precedes the pandas import
C23_Witness ==
    /\ FunctionGenerated /\ HasTabularInput
    /\ Len(ImportLines) >= 2
    /\ ImportLines[1] = s_import_numpy
    /\ ImportLines[2] = s_import_pandas

\* the pandas import put first
C23_AddedWitness ==
    /\ FunctionGenerated /\ HasTabularInput
    /\ MergedList = <<s_import_numpy>>
    /\ SubSeq(ImportLines, 1, 2) = <<s_import_pandas, s_import_numpy>>

\* the existing_body argument of the call, and the body of the code
SuppliedBody == out.sig[1]
Body == out.val.body

\* C24 as stated: without a supplied body the stub returns the first input
\* whenever the entry has an input, and otherwise one default-constructed
\* value per declared output; a supplied body is emitted as it is.
C24_StubReturnsFirstInput ==
    FunctionGenerated =>
        IF SuppliedBody = PyNone
        THEN IF metadata.inputs # <<>>
             THEN Body = ReturnStmt(<<metadata.inputs[1].name>>)
             ELSE Body.v.values = [i \in 1..Len(metadata.outputs) |-> s_pd_DataFrame__]
        ELSE Body = SuppliedBody

\* C24 amended: the stub returns the first input when the entry has an input
\* and exactly one declared output; otherwise it returns one default-
\* constructed value per declared output, and is the bare pass when no
\* output is declared; a supplied body that is not empty is emitted as it
\* is, an empty one counts as not supplied.
C24_StubReturnsFirstInputForOneOutput ==
    FunctionGenerated =>
        IF SuppliedBody = PyNone \/ SuppliedBody = PyStr(<<>>)
        THEN IF metadata.inputs # <<>> /\ Len(metadata.outputs) = 1
             THEN Body = ReturnStmt(<<metadata.inputs[1].name>>)
             ELSE /\ Body.v.values = [i \in 1..Len(metadata.outputs) |-> s_pd_DataFrame__]
                  /\ Body.v.stmt = IF metadata.outputs = <<>> THEN "pass" ELSE "return"
        ELSE Body = SuppliedBody

\* an entry with an input and two outputs, no body supplied
C24_Witness ==
    /\ FunctionGenerated /\ SuppliedBody = PyNone
    /\ metadata.inputs # <<>> /\ Len(metadata.outputs) = 2
    /\ Body = ReturnStmt(<<s_pd_DataFrame__, s_pd_DataFrame__>>)

\* an entry with an input and one output: the input is returned
C24_InputWitness ==
    /\ FunctionGenerated /\ SuppliedBody = PyNone
    /\ metadata.inputs # <<>> /\ Len(metadata.outputs) = 1
    /\ Body = ReturnStmt(<<metadata.inputs[1].name>>)


(***************************************************************************)
(* Properties of the call generators                                       *)
(***************************************************************************)
\* generate_call_code or generate_code has returned the code in out
CallGenerated == out.op \in {"generate_call_code", "generate_code"}

\* the name and the value bound last, and the tabular inputs of the entry
BoundName  == out.sig[1][Len(out.sig[1])][1]
BoundValue == out.sig[1][Len(out.sig[1])][2]

\* the argument the code passes for the value bound last, <<>> when the
\* code passes none for it
BoundArgument ==
    LET hits == SelectSeq(out.val.args, LAMBDA a : StartsWith(a, BoundName \o <<"=">>))
    IN  IF hits = <<>> THEN <<>> ELSE SubSeq(hits[1], Len(BoundName) + 2, Len(hits[1]))

\* the value is bound to a parameter whose widget is the file selector
BoundToFileSelector ==
    \E i \in 1..Len(metadata.parameters) :
        /\ metadata.parameters[i].name = BoundName
        /\ metadata.parameters[i].widget = PyStr(s_file_selector)

Quoted(text) == <<"'">> \o text \o <<"'">>

\* the rules of C25 in their order, on the trimmed text of the value
ByFirstRule(val) ==
    LET text == Strip(str(val))
        Pair(open, close) == Len(text) >= 1 /\ text[1] = open /\ text[Len(text)] = close
    IN  CASE val.t = "bool" -> IF val.v THEN s_True ELSE s_False
          [] val.t \in {"int", "float"} -> str(val)
          [] OTHER ->
               IF Pair("[", "]") \/ Pair("{", "}") \/ Pair("(", ")") THEN text
               ELSE IF text = s_None THEN s_None
               ELSE IF BoundToFileSelector THEN Quoted(DoubleBackslashes(text))
               ELSE Quoted(text)

\* the list literal of the items of a list or tuple, the strings quoted
ListLiteral(val) ==
    <<"[">>
    \o JoinComma([i \in 1..Len(val.v) |->
                     IF val.v[i].t = "str" THEN Quoted(val.v[i].v) ELSE str(val.v[i])])
    \o <<"]">>

BoundToColumnSelector ==
    \E i \in 1..Len(metadata.parameters) :
        /\ metadata.parameters[i].name = BoundName
        /\ metadata.parameters[i].widget = PyStr(s_column_selector)

\* None, the empty list and the empty tuple
IsUnset(val) == val.t = "none" \/ (val.t \in {"list", "tuple"} /\ val.v = <<>>)

C25_FileSelectorWitness ==
    /\ CallGenerated /\ BoundToFileSelector
    /\ BoundValue = PyStr(<<"a", "\\", "b">>)
    /\ BoundArgument = <<"'", "a", "\\", "\\", "b", "'">>

\* the output names supplied: output_var when it is not empty; for
\* generate_code the trimmed texts of the output widgets that are not
\* empty, in the order in which the entry declares the outputs
OutputNames ==
    IF out.op = "generate_call_code"
    THEN (IF Truthy(out.sig[2][1]) THEN <<out.sig[2][1].v>> ELSE <<>>)
    ELSE LET TextOf(name) ==
                 LET hits == SelectSeq(out.sig[2], LAMBDA item : item[1] = name)
                 IN  IF hits = <<>> \/ Strip(hits[1][2].value.v) = <<>> THEN <<>>
                     ELSE <<Strip(hits[1][2].value.v)>>
         IN  IF metadata.outputs = <<>> THEN TextOf(s_single_output)
             ELSE Flatten([i \in 1..Len(metadata.outputs) |-> TextOf(metadata.outputs[i].name)])

\* the call expression of the generated code
CallExpression == out.val.id \o <<"(">> \o JoinComma(out.val.args) \o <<")">>

\* C26: the generated text ends with the assignment of the call to the one
\* output name and that name; or with the assignment of the call to all
\* output names, in declared order, and the first of them; or, without an
\* output name, with the call expression itself.
C26_EndOfGeneratedCall ==
    CallGenerated =>
        out.val.statements =
            IF OutputNames = <<>> THEN <<CallExpression>>
            ELSE IF Len(OutputNames) = 1
            THEN <<OutputNames[1] \o <<" ", "=", " ">> \o CallExpression, OutputNames[1]>>
            ELSE <<JoinComma(OutputNames) \o <<" ", "=", " ">> \o CallExpression, OutputNames[1]>>

\* two output names, their widgets stored in the opposite order
C26_Witness ==
    /\ CallGenerated /\ out.op = "generate_code"
    /\ Len(metadata.outputs) = 2
    /\ Len(out.sig[2]) = 2 /\ out.sig[2][1][1] = metadata.outputs[2].name
    /\ OutputNames = <<<<"r", "1">>, <<"r", "2">>>>
    /\ out.val.statements[2] = <<"r", "1">>


(***************************************************************************)
(* langchain_tools/invoker.py: ToolInvoker                                 *)
(*                                                                         *)
(* The invoked function runs in an executor thread (invoke_sync) or in a   *)
(* worker process (invoke_with_subprocess).  Whether and when it ends is   *)
(* not in the hands of the invoker: WorkerReturns and WorkerRaises may     *)
(* happen at any moment, or never.                                         *)
(***************************************************************************)
MaxTimeout == 2
Outputs == {1, 2}

\* the classes of the exceptions met here, each with its base classes
Bases(class) ==
    CASE class = "concurrent.futures.TimeoutError" -> {"concurrent.futures.TimeoutError", "Exception"}
      [] class = "queue.Empty" -> {"queue.Empty", "Exception"}
      [] class = "multiprocessing.TimeoutError" ->
            {"multiprocessing.TimeoutError", "multiprocessing.ProcessError", "Exception"}
      [] OTHER -> {class}

isinstance(e, class) == class \in Bases(e)

\* the result dicts (the message and the meta entry are left out)
Success(output) == [success |-> TRUE, output |-> output, code |-> "none", retryable |-> FALSE]
Failure(code, retryable) == [success |-> FALSE, output |-> 0, code |-> code, retryable |-> retryable]

\* what Queue.get(timeout=...) raises when nothing arrives in time
QueueGetTimesOut == "queue.Empty"

\* invoke_with_subprocess, lines 156-185: the result for the exception caught
SubprocessFailure(e) ==
    IF isinstance(e, "multiprocessing.TimeoutError")
    THEN Failure("TIMEOUT", TRUE)
    ELSE Failure("SUBPROCESS_ERROR", FALSE)

is_alive(w) == w.state = "running"

\* invoke_sync up to the blocking future.result(timeout=timeout)
InvokeSync ==
    /\ invoke_pc \in {"idle", "done"}
    /\ \E t \in 1..MaxTimeout :
          timeout' = t
    /\ method' = "invoke_sync"
    /\ invoke_pc' = "wait"
    /\ clock' = 0
    /\ worker' = [state |-> "running", ignores_sigterm |-> FALSE]
    /\ result_queue' = <<>>
    /\ caught' = "none"
    /\ invoke_returned' = NoResult
    /\ UNCHANGED <<scanVars, parseVars, extractVars, genVars, registryVars, pathVars>>

\* invoke_with_subprocess up to the blocking result_queue.get(timeout=timeout)
InvokeWithSubprocess ==
    /\ invoke_pc \in {"idle", "done"}
    /\ \E t \in 1..MaxTimeout, ignores \in BOOLEAN :
          /\ timeout' = t
          /\ worker' = [state |-> "running", ignores_sigterm |-> ignores]
    /\ method' = "invoke_with_subprocess"
    /\ invoke_pc' = "wait"
    /\ clock' = 0
    /\ result_queue' = <<>>
    /\ caught' = "none"
    /\ invoke_returned' = NoResult
    /\ UNCHANGED <<scanVars, parseVars, extractVars, genVars, registryVars, pathVars>>

\* time passes while the call waits
Tick ==
    /\ invoke_pc = "wait"
    /\ clock < timeout
    /\ clock' = clock + 1
    /\ UNCHANGED <<scanVars, parseVars, extractVars, genVars, registryVars, pathVars,
                   method, invoke_pc, timeout, worker, result_queue, caught, invoke_returned>>

\* func(**args) returns: the future holds the value (kept in result_queue here as
\* well), the worker process puts the success dict and ends
WorkerReturns ==
    /\ is_alive(worker)
    /\ \E output \in Outputs :
          /\ worker' = [worker EXCEPT !.state = "returned"]
          /\ result_queue' = Append(result_queue, Success(output))
    /\ UNCHANGED <<scanVars, parseVars, extractVars, genVars, registryVars, pathVars,
                   method, invoke_pc, timeout, clock, caught, invoke_returned>>

\* func(**args) raises an Exception; the worker process puts the failure dict and ends
WorkerRaises ==
    /\ is_alive(worker)
    /\ worker' = [worker EXCEPT !.state = "raised"]
    /\ result_queue' = Append(result_queue, Failure("EXECUTION_ERROR", TRUE))
    /\ UNCHANGED <<scanVars, parseVars, extractVars, genVars, registryVars, pathVars,
                   method, invoke_pc, timeout, clock, caught, invoke_returned>>

\* invoke_sync: future.result hands over the outcome of the finished function;
\* the with block is left at once, the executor thread being done
FutureResult ==
    /\ method = "invoke_sync"
    /\ invoke_pc = "wait"
    /\ ~is_alive(worker)
    /\ invoke_pc' = "done"
    /\ caught' = IF worker.state = "raised" THEN "Exception" ELSE "none"
    /\ invoke_returned' = result_queue[1]
    /\ UNCHANGED <<scanVars, parseVars, extractVars, genVars, registryVars, pathVars,
                   method, timeout, clock, worker, result_queue>>

\* invoke_sync: future.result raises the timeout error, which leaves the with block
FutureTimeout ==
    /\ method = "invoke_sync"
    /\ invoke_pc = "wait"
    /\ is_alive(worker)
    /\ clock = timeout
    /\ invoke_pc' = "exit"
    /\ caught' = "concurrent.futures.TimeoutError"
    /\ UNCHANGED <<scanVars, parseVars, extractVars, genVars, registryVars, pathVars,
                   method, timeout, clock, worker, result_queue, invoke_returned>>

\* invoke_sync: ThreadPoolExecutor.__exit__ is shutdown(wait=True), which joins
\* the executor thread; then the except clause returns the TIMEOUT result
ExecutorExit ==
    /\ method = "invoke_sync"
    /\ invoke_pc = "exit"
    /\ ~is_alive(worker)
    /\ invoke_pc' = "done"
    /\ invoke_returned' = Failure("TIMEOUT", TRUE)
    /\ UNCHANGED <<scanVars, parseVars, extractVars, genVars, registryVars, pathVars,
                   method, timeout, clock, worker, result_queue, caught>>

\* invoke_with_subprocess: result_queue.get hands over the dict the worker put
QueueGet ==
    /\ method = "invoke_with_subprocess"
    /\ invoke_pc = "wait"
    /\ result_queue # <<>>
    /\ invoke_pc' = "done"
    /\ invoke_returned' = Head(result_queue)
    /\ result_queue' = Tail(result_queue)
    /\ UNCHANGED <<scanVars, parseVars, extractVars, genVars, registryVars, pathVars,
                   method, timeout, clock, worker, caught>>

\* invoke_with_subprocess: nothing arrived in time, result_queue.get raises
QueueEmpty ==
    /\ method = "invoke_with_subprocess"
    /\ invoke_pc = "wait"
    /\ result_queue = <<>>
    /\ clock = timeout
    /\ invoke_pc' = "except"
    /\ caught' = QueueGetTimesOut
    /\ UNCHANGED <<scanVars, parseVars, extractVars, genVars, registryVars, pathVars,
                   method, timeout, clock, worker, result_queue, invoke_returned>>

\* invoke_with_subprocess, lines 150-152: process.terminate() when the process is
\* alive, which ends it unless it ignores SIGTERM; otherwise straight to the result
Terminate ==
    /\ method = "invoke_with_subprocess"
    /\ invoke_pc = "except"
    /\ IF is_alive(worker)
       THEN /\ worker' = IF worker.ignores_sigterm THEN worker
                         ELSE [worker EXCEPT !.state = "terminated"]
            /\ invoke_pc' = "join"
            /\ UNCHANGED invoke_returned
       ELSE /\ invoke_pc' = "done"
            /\ invoke_returned' = SubprocessFailure(caught)
            /\ UNCHANGED worker
    /\ UNCHANGED <<scanVars, parseVars, extractVars, genVars, registryVars, pathVars,
                   method, timeout, clock, result_queue, caught>>

\* invoke_with_subprocess, lines 152-185: join(timeout=1.0) is over, the process
\* is killed when still alive, and the result for the exception is returned
JoinAndReturn ==
    /\ method = "invoke_with_subprocess"
    /\ invoke_pc = "join"
    /\ worker' = IF is_alive(worker) THEN [worker EXCEPT !.state = "killed"] ELSE worker
    /\ invoke_pc' = "done"
    /\ invoke_returned' = SubprocessFailure(caught)
    /\ UNCHANGED <<scanVars, parseVars, extractVars, genVars, registryVars, pathVars,
                   method, timeout, clock, result_queue, caught>>

InvokeInit == ParseInit

InvokeNext ==
    \/ InvokeSync
    \/ InvokeWithSubprocess
    \/ WorkerReturns
    \/ WorkerRaises
    \/ Tick
    \/ FutureResult
    \/ FutureTimeout
    \/ ExecutorExit
    \/ QueueGet
    \/ QueueEmpty
    \/ Terminate
    \/ JoinAndReturn

SpecInvoke == InvokeInit /\ [][InvokeNext]_vars

\* the invoking thread runs whenever it is not blocked and time passes; nothing
\* makes the invoked function end
SpecInvokeFair ==
    /\ InvokeInit
    /\ [][InvokeNext]_vars
    /\ WF_vars(Tick)
    /\ WF_vars(FutureResult)
    /\ WF_vars(FutureTimeout)
    /\ WF_vars(ExecutorExit)
    /\ WF_vars(QueueGet)
    /\ WF_vars(QueueEmpty)
    /\ WF_vars(Terminate)
    /\ WF_vars(JoinAndReturn)

(***************************************************************************)
(* Properties of ToolInvoker                                               *)
(***************************************************************************)
SyncWaiting == method = "invoke_sync" /\ invoke_pc = "wait"
TimedOut == invoke_pc = "done" /\ caught \in {"concurrent.futures.TimeoutError", "queue.Empty"}

\* C27: a call of invoke_sync always eventually returns a result to its caller,
\* whether or not the invoked function ever ends
C27_CallerAlwaysGetsResult == SyncWaiting ~> (invoke_pc = "done")

\* C27: invoke_sync hands the TIMEOUT result to its caller only once the invoked
\* function has ended
C27_TimeoutOnlyAfterFunctionEnds ==
    (method = "invoke_sync" /\ TimedOut) =>
        /\ invoke_returned = Failure("TIMEOUT", TRUE)
        /\ ~is_alive(worker)

\* C27: the timeout of invoke_sync has expired and the function is still running
C27_Witness ==
    /\ method = "invoke_sync"
    /\ invoke_pc = "exit"
    /\ is_alive(worker)

\* C28: when invoke_with_subprocess got no result within the timeout, it returns
\* the TIMEOUT failure with retryable true, and the worker process runs no more
C28_TimeoutResultAndWorkerStopped ==
    (method = "invoke_with_subprocess" /\ TimedOut) =>
        /\ invoke_returned = Failure("TIMEOUT", TRUE)
        /\ ~is_alive(worker)

\* C28: when invoke_with_subprocess got no result within the timeout, it returns
\* the SUBPROCESS_ERROR failure with retryable false, and the worker process
\* runs no more
C28_SubprocessErrorAndWorkerStopped ==
    (method = "invoke_with_subprocess" /\ TimedOut) =>
        /\ invoke_returned = Failure("SUBPROCESS_ERROR", FALSE)
        /\ ~is_alive(worker)

\* C28: a worker that ignores SIGTERM was killed after the timeout
C28_Witness ==
    /\ method = "invoke_with_subprocess"
    /\ TimedOut
    /\ worker.state = "killed"

(***************************************************************************)
(* langchain_tools/registry.py: ToolRegistry                               *)
(*                                                                         *)
(* Each thread runs get_instance statement by statement; the statements of *)
(* different threads interleave in any order.  A ToolRegistry object is    *)
(* its index in heap.                                                      *)
(***************************************************************************)
ToolSpecs == {[name |-> name, description |-> d] : name \in ToolNames, d \in {"a", "b"}}

\* ToolRegistry.__init__: self._tools = {}
ToolRegistry == [_tools |-> [name \in ToolNames |-> NoTool]]

\* the mutation of get_instance_locked: no second test inside the lock
get_instance_locked_Unchecked(instance) == "construct"

\* get_instance, line 40: the test inside the lock
get_instance_locked(instance) == IF instance = NoInstance THEN "construct" ELSE "release"

\* get_instance, line 38: the test outside the lock
get_instance_unlocked(instance) == IF instance = NoInstance THEN "acquire" ELSE "return"

\* get_tool(name) on the registry object held at index i; NoTool stands for None
get_tool(i, name) == heap[i]._tools[name]

\* a thread calls ToolRegistry.get_instance()
CallGetInstance(t) ==
    /\ thread_pc[t] = "out"
    /\ thread_pc' = [thread_pc EXCEPT ![t] = "check"]
    /\ UNCHANGED <<scanVars, parseVars, extractVars, genVars, invokeVars, pathVars,
                   _instance, _lock, heap, thread_local, handed, registered>>

\* if cls._instance is None:
FirstCheck(t) ==
    /\ thread_pc[t] = "check"
    /\ thread_pc' = [thread_pc EXCEPT ![t] = get_instance_unlocked(_instance)]
    /\ UNCHANGED <<scanVars, parseVars, extractVars, genVars, invokeVars, pathVars,
                   _instance, _lock, heap, thread_local, handed, registered>>

\* with cls._lock: (entry)
Acquire(t) ==
    /\ thread_pc[t] = "acquire"
    /\ _lock = NoThread
    /\ _lock' = t
    /\ thread_pc' = [thread_pc EXCEPT ![t] = "locked"]
    /\ UNCHANGED <<scanVars, parseVars, extractVars, genVars, invokeVars, pathVars,
                   _instance, heap, thread_local, handed, registered>>

\* if cls._instance is None: (inside the lock)
SecondCheck(t) ==
    /\ thread_pc[t] = "locked"
    /\ thread_pc' = [thread_pc EXCEPT ![t] = get_instance_locked(_instance)]
    /\ UNCHANGED <<scanVars, parseVars, extractVars, genVars, invokeVars, pathVars,
                   _instance, _lock, heap, thread_local, handed, registered>>

\* cls(): the right-hand side of the assignment of line 41
Construct(t) ==
    /\ thread_pc[t] = "construct"
    /\ heap' = Append(heap, ToolRegistry)
    /\ thread_local' = [thread_local EXCEPT ![t].made = Len(heap) + 1]
    /\ thread_pc' = [thread_pc EXCEPT ![t] = "assign"]
    /\ UNCHANGED <<scanVars, parseVars, extractVars, genVars, invokeVars, pathVars,
                   _instance, _lock, handed, registered>>

\* cls._instance = ...
Assign(t) ==
    /\ thread_pc[t] = "assign"
    /\ _instance' = thread_local[t].made
    /\ thread_pc' = [thread_pc EXCEPT ![t] = "release"]
    /\ UNCHANGED <<scanVars, parseVars, extractVars, genVars, invokeVars, pathVars,
                   _lock, heap, thread_local, handed, registered>>

\* with cls._lock: (exit)
Release(t) ==
    /\ thread_pc[t] = "release"
    /\ _lock' = NoThread
    /\ thread_pc' = [thread_pc EXCEPT ![t] = "return"]
    /\ UNCHANGED <<scanVars, parseVars, extractVars, genVars, invokeVars, pathVars,
                   _instance, heap, thread_local, handed, registered>>

\* return cls._instance
ReturnInstance(t) ==
    /\ thread_pc[t] = "return"
    /\ thread_local' = [thread_local EXCEPT ![t].got = _instance]
    /\ handed' = handed \cup {_instance}
    /\ thread_pc' = [thread_pc EXCEPT ![t] = "out"]
    /\ UNCHANGED <<scanVars, parseVars, extractVars, genVars, invokeVars, pathVars,
                   _instance, _lock, heap, registered>>

\* register_tool(spec) on the instance the thread got: the assignment is made
\* holding the lock of that instance, which nothing else here takes
RegisterTool(t) ==
    /\ thread_pc[t] = "out"
    /\ thread_local[t].got # NoInstance
    /\ \E spec \in ToolSpecs :
          /\ heap' = [heap EXCEPT ![thread_local[t].got]._tools[spec.name] = spec]
          /\ registered' = [registered EXCEPT ![spec.name] = spec]
    /\ UNCHANGED <<scanVars, parseVars, extractVars, genVars, invokeVars, pathVars,
                   _instance, _lock, thread_pc, thread_local, handed>>

RegistryInit == ParseInit

RegistryNext ==
    \E t \in Threads :
        \/ CallGetInstance(t)
        \/ FirstCheck(t)
        \/ Acquire(t)
        \/ SecondCheck(t)
        \/ Construct(t)
        \/ Assign(t)
        \/ Release(t)
        \/ ReturnInstance(t)
        \/ RegisterTool(t)

SpecRegistry == RegistryInit /\ [][RegistryNext]_vars

(***************************************************************************)
(* Properties of ToolRegistry                                              *)
(***************************************************************************)
Holders == {t \in Threads : thread_local[t].got # NoInstance}

\* C29: at most one ToolRegistry is ever constructed, every get_instance call
\* returns that one object, and get_tool through the instance of any caller gives
\* for every name the spec last registered under it through any caller's instance
C29_OneRegistryForAllCallers ==
    /\ Len(heap) <= 1
    /\ handed \subseteq {1}
    /\ \A t \in Holders : \A name \in ToolNames :
          get_tool(thread_local[t].got, name) = registered[name]

\* C29: a thread that found no instance at the test outside the lock still waits
\* for the lock while two other threads hold the instance, through which a tool
\* has been registered
C29_Witness ==
    \E t, u, v \in Threads :
        /\ t # u /\ u # v /\ t # v
        /\ thread_pc[t] = "acquire"
        /\ {u, v} \subseteq Holders
        /\ \E name \in ToolNames : registered[name] # NoTool

(***************************************************************************)
(* core/path_utils.py                                                      *)
(*                                                                         *)
(* The first call of ensure_library_in_path is the one the module makes    *)
(* when it is imported (line 70).  Other code may insert into sys.path and *)
(* remove from it between the calls.                                       *)
(***************************************************************************)
MaxPath == 3
MaxCalls == 3

\* os.path.dirname(os.path.dirname(os.path.abspath(__file__)))
LibraryPath == "library"
Paths == {LibraryPath, "site-packages", "cwd"}

\* list.insert(i, x), i counted from 0
ListInsert(l, i, x) == SubSeq(l, 1, i) \o <<x>> \o SubSeq(l, i + 1, Len(l))

\* del l[i], i counted from 0
ListDelete(l, i) == SubSeq(l, 1, i) \o SubSeq(l, i + 2, Len(l))

ListCount(l, x) == Cardinality({i \in 1..Len(l) : l[i] = x})

\* get_library_path(): the cached path, computed at the first call
get_library_path(cached) == IF cached = "None" THEN LibraryPath ELSE cached

\* ensure_library_in_path, lines 60-63: sys.path as the call leaves it
ensure_path(path, initialized, lib_path) ==
    IF ~initialized
    THEN IF \A i \in 1..Len(path) : path[i] # lib_path
         THEN ListInsert(path, 0, lib_path)
         ELSE path
    ELSE path

\* ensure_library_in_path()
EnsureLibraryInPath ==
    /\ ensured.calls < MaxCalls
    /\ _library_path' = get_library_path(_library_path)
    /\ sys_path' = ensure_path(sys_path, _initialized, get_library_path(_library_path))
    /\ _initialized' = TRUE
    /\ ensured' = [calls |-> ensured.calls + 1, val |-> get_library_path(_library_path)]
    /\ UNCHANGED <<scanVars, parseVars, extractVars, genVars, invokeVars, registryVars>>

\* other code adds a path: sys.path.insert(i, p), sys.path.append(p)
PathInsert ==
    /\ Len(sys_path) < MaxPath
    /\ \E i \in 0..Len(sys_path), p \in Paths :
          sys_path' = ListInsert(sys_path, i, p)
    /\ UNCHANGED <<scanVars, parseVars, extractVars, genVars, invokeVars, registryVars,
                   _initialized, _library_path, ensured>>

\* other code removes a path: del sys.path[i], sys.path.remove(p)
PathRemove ==
    /\ \E i \in 0..(Len(sys_path) - 1) :
          sys_path' = ListDelete(sys_path, i)
    /\ UNCHANGED <<scanVars, parseVars, extractVars, genVars, invokeVars, registryVars,
                   _initialized, _library_path, ensured>>

PathInit == ParseInit

PathNext ==
    \/ EnsureLibraryInPath
    \/ PathInsert
    \/ PathRemove

SpecPath == PathInit /\ [][PathNext]_vars

(***************************************************************************)
(* Properties of ensure_library_in_path                                    *)
(***************************************************************************)
Present(path) == ListCount(path, LibraryPath) >= 1

\* C30: every call of ensure_library_in_path returns with the library path in
\* sys.path, and adds no copy of it when it is there already
C30_EnsuresPresentAndAddsNoCopy ==
    [][EnsureLibraryInPath =>
          /\ Present(sys_path')
          /\ Present(sys_path) => sys_path' = sys_path]_vars

\* C30: the first call of ensure_library_in_path returns with the library path in
\* sys.path, and no call adds a copy of it when it is there already
C30_FirstCallEnsuresAndNoCallAddsCopy ==
    [][EnsureLibraryInPath =>
          /\ ~_initialized => Present(sys_path')
          /\ Present(sys_path) => sys_path' = sys_path]_vars

\* C30: ensure_library_in_path has returned twice and the library path, removed in
\* between, is not in sys.path
C30_Witness ==
    /\ ensured.calls >= 2
    /\ ~Present(sys_path)

=============================================================================
